---- MODULE Spec2Model ----
(***************************************************************************)
(* A model of the retrieval core of the PDF chatbot: the in-memory        *)
(* VectorStore (app/core/vector_store.py), the IngestionService           *)
(* (app/services/ingestion.py) and the RetrievalService                   *)
(* (app/services/retrieval.py).                                           *)
(*                                                                         *)
(* A Python dict is a TLA+ function with a domain of strings, a Python    *)
(* list is a sequence.  A call that raises is a call whose outcome has    *)
(* raised # "None"; the store it leaves behind is whatever the statements *)
(* executed before the raise made of it.                                  *)
(***************************************************************************)
EXTENDS Integers, Sequences, FiniteSets, TLC

VARIABLES
    vector_store,            \* IngestionService.vector_store (the store under test)
    retrieval_vector_store,  \* RetrievalService.vector_store
    result,                  \* outcome of the last call
    llm_calls,               \* number of LLMClient.generate_response invocations
    threads,                 \* per thread: the call in progress and its locals
    round,                   \* calls started since the threads were last joined
    chunker                  \* the TextChunker last constructed

vars == <<vector_store, retrieval_vector_store, result, llm_calls, threads, round,
          chunker>>

----------------------------------------------------------------------------
(* Bounds of the model.                                                    *)

\* Largest number of ids a store may hold before a further add is not tried.
MaxRecords == 3
\* Largest number of chunks (and of embeddings) handed to one add_documents.
MaxChunks == 2
\* Largest n_results asked of query.
MaxResults == 3

\* settings.top_k_results
top_k_results == 5

----------------------------------------------------------------------------
(* Python values.                                                          *)

\* {} (and None where only truthiness is read: `if metadata:`, `if filter_dict:`)
EmptyDict == <<>>

\* dict.get(k, default)
Get(d, k, default) == IF k \in DOMAIN d THEN d[k] ELSE default

\* bool(d) of a dict
Truthy(d) == DOMAIN d # {}

\* seq[:n] of a list, n of either sign
Slice(seq, n) ==
    IF n >= 0
    THEN SubSeq(seq, 1, IF n < Len(seq) THEN n ELSE Len(seq))
    ELSE SubSeq(seq, 1, IF Len(seq) + n > 0 THEN Len(seq) + n ELSE 0)

\* del seq[i], i a 0-based index that is in range
RemoveAt(seq, i) == SubSeq(seq, 1, i) \o SubSeq(seq, i + 2, Len(seq))

\* The range of a sequence.
Range(seq) == {seq[i] : i \in DOMAIN seq}

\* What a call returns: None, or an int.
None == [type |-> "NoneType"]
PyInt(n) == [type |-> "int", v |-> n]

----------------------------------------------------------------------------
(* VectorStore                                                             *)

\* VectorStore.__init__: four empty lists.
EmptyStore ==
    [ids |-> <<>>, documents |-> <<>>, embeddings |-> <<>>, metadatas |-> <<>>]

\* f"{document_id}_chunk_{chunk['chunk_index']}"
ChunkId(document_id, chunk_index) ==
    document_id \o "_chunk_" \o ToString(chunk_index)

\* The metadata dict add_documents stores for one chunk.
ChunkMeta(chunk, document_id, metadata) ==
    LET chunk_meta == [document_id  |-> document_id,
                       page_number  |-> Get(chunk, "page_number", 0),
                       chunk_index  |-> chunk["chunk_index"],
                       chunk_length |-> chunk["chunk_length"]]
    IN  IF Truthy(metadata)
        THEN [filename  |-> Get(metadata, "filename", ""),
              num_pages |-> Get(metadata, "num_pages", 0)] @@ chunk_meta
        ELSE chunk_meta

\* Mutant of AddOne: the new items go to the front of the lists.
AddOne_at_front(self, chunk, embedding, document_id, metadata) ==
    IF "chunk_index" \notin DOMAIN chunk
    THEN [store |-> self, raised |-> "KeyError"]
    ELSE LET s1 == [self EXCEPT !.ids =
                       <<ChunkId(document_id, chunk["chunk_index"])>> \o @]
         IN  IF "text" \notin DOMAIN chunk
             THEN [store |-> s1, raised |-> "KeyError"]
             ELSE LET s2 == [s1 EXCEPT !.documents = <<chunk["text"]>> \o @,
                                       !.embeddings = <<embedding>> \o @]
                  IN  IF "chunk_length" \notin DOMAIN chunk
                      THEN [store |-> s2, raised |-> "KeyError"]
                      ELSE [store |-> [s2 EXCEPT !.metadatas =
                               <<ChunkMeta(chunk, document_id, metadata)>> \o @],
                            raised |-> "None"]

\* One iteration of the loop of add_documents, statement by statement: the
\* store after it, and the exception that ended it ("None" when none did).
AddOne(self, chunk, embedding, document_id, metadata) ==
    IF "chunk_index" \notin DOMAIN chunk
    THEN [store |-> self, raised |-> "KeyError"]
    ELSE LET s1 == [self EXCEPT !.ids =
                       Append(@, ChunkId(document_id, chunk["chunk_index"]))]
         IN  IF "text" \notin DOMAIN chunk
             THEN [store |-> s1, raised |-> "KeyError"]
             ELSE LET s2 == [s1 EXCEPT !.documents = Append(@, chunk["text"]),
                                       !.embeddings = Append(@, embedding)]
                  IN  IF "chunk_length" \notin DOMAIN chunk
                      THEN [store |-> s2, raised |-> "KeyError"]
                      ELSE [store |-> [s2 EXCEPT !.metadatas =
                               Append(@, ChunkMeta(chunk, document_id, metadata))],
                            raised |-> "None"]

\* for i, (chunk, embedding) in enumerate(zip(chunks, embeddings)), from pair k.
RECURSIVE AddLoop(_, _, _, _, _, _)
AddLoop(self, chunks, embeddings, document_id, metadata, k) ==
    IF k > Len(chunks) \/ k > Len(embeddings)
    THEN [store |-> self, raised |-> "None"]
    ELSE LET one == AddOne(self, chunks[k], embeddings[k], document_id, metadata)
         IN  IF one.raised # "None"
             THEN one
             ELSE AddLoop(one.store, chunks, embeddings, document_id, metadata, k + 1)

\* VectorStore.add_documents
add_documents(self, chunks, embeddings, document_id, metadata) ==
    IF Len(chunks) # Len(embeddings)
    THEN [store |-> self, raised |-> "ValueError"]
    ELSE AddLoop(self, chunks, embeddings, document_id, metadata, 1)

\* indices_to_remove of delete_document (0-based, ascending).  For a dict
\* without the key meta.get("document_id") is None, which equals no
\* document_id.
RECURSIVE IndicesToRemove(_, _, _)
IndicesToRemove(metadatas, document_id, i) ==
    IF i >= Len(metadatas)
    THEN <<>>
    ELSE (IF /\ "document_id" \in DOMAIN metadatas[i + 1]
             /\ metadatas[i + 1]["document_id"] = document_id
          THEN <<i>> ELSE <<>>)
         \o IndicesToRemove(metadatas, document_id, i + 1)

\* sorted(seq, reverse=True) of an ascending list: the list reversed.
RECURSIVE Reversed(_)
Reversed(seq) ==
    IF seq = <<>> THEN <<>> ELSE Reversed(Tail(seq)) \o <<Head(seq)>>

\* Mutant of DeleteAt: the last metadata map is removed, not the one at i.
DeleteAt_popping_metadata(self, i) ==
    IF i >= Len(self.ids) \/ i >= Len(self.documents)
       \/ i >= Len(self.embeddings) \/ self.metadatas = <<>>
    THEN [store |-> self, raised |-> "IndexError"]
    ELSE [store |-> [ids        |-> RemoveAt(self.ids, i),
                     documents  |-> RemoveAt(self.documents, i),
                     embeddings |-> RemoveAt(self.embeddings, i),
                     metadatas  |-> SubSeq(self.metadatas, 1, Len(self.metadatas) - 1)],
          raised |-> "None"]

\* The four del statements of delete_document for index i; `del l[i]` raises
\* IndexError when i is out of range and leaves the later lists as they are.
DeleteAt(self, i) ==
    IF i >= Len(self.ids)
    THEN [store |-> self, raised |-> "IndexError"]
    ELSE LET s1 == [self EXCEPT !.ids = RemoveAt(@, i)]
         IN  IF i >= Len(s1.documents)
             THEN [store |-> s1, raised |-> "IndexError"]
             ELSE LET s2 == [s1 EXCEPT !.documents = RemoveAt(@, i)]
                  IN  IF i >= Len(s2.embeddings)
                      THEN [store |-> s2, raised |-> "IndexError"]
                      ELSE LET s3 == [s2 EXCEPT !.embeddings = RemoveAt(@, i)]
                           IN  IF i >= Len(s3.metadatas)
                               THEN [store |-> s3, raised |-> "IndexError"]
                               ELSE [store |-> [s3 EXCEPT !.metadatas = RemoveAt(@, i)],
                                     raised |-> "None"]

\* for i in <order>: del ...
RECURSIVE DeleteLoop(_, _)
DeleteLoop(self, order) ==
    IF order = <<>>
    THEN [store |-> self, raised |-> "None"]
    ELSE LET one == DeleteAt(self, Head(order))
         IN  IF one.raised # "None" THEN one ELSE DeleteLoop(one.store, Tail(order))

\* Mutant of delete_document: the indices are removed in ascending order, so
\* every removal shifts the indices still to be removed.
delete_document_ascending(self, document_id) ==
    DeleteLoop(self, IndicesToRemove(self.metadatas, document_id, 0))

\* VectorStore.delete_document
delete_document(self, document_id) ==
    DeleteLoop(self, Reversed(IndicesToRemove(self.metadatas, document_id, 0)))

\* VectorStore.list_documents (the set; the order of list(set) is not modelled)
list_documents(self) ==
    {Get(self.metadatas[i], "document_id", "") : i \in DOMAIN self.metadatas}

\* Mutant of get_document_count: the documents are counted, not their chunks.
get_document_count_of_documents(self) == Cardinality(list_documents(self))

\* VectorStore.get_document_count
get_document_count(self) == Len(self.documents)

----------------------------------------------------------------------------
(* VectorStore.query                                                       *)

\* A numpy float: a value, or nan.
Num(v) == [nan |-> FALSE, v |-> v]
NaN == [nan |-> TRUE, v |-> 0]

\* x < y on floats: every comparison with nan is False.
Lt(x, y) == ~x.nan /\ ~y.nan /\ x.v < y.v

\* np.dot of two vectors of one length.
RECURSIVE Dot(_, _)
Dot(a, b) ==
    IF a = <<>> THEN 0 ELSE Head(a) * Head(b) + Dot(Tail(a), Tail(b))

\* np.linalg.norm, for the vectors whose norm is a whole number.
Norm(a) == CHOOSE n \in 0..Dot(a, a) : n * n = Dot(a, a)

\* distance = 1 - dot(q, e) / (norm(q) * norm(e)); 0 / 0.0 is nan in numpy
\* (a RuntimeWarning, no exception).  Exact for the vectors of the model, whose
\* dot products are multiples of the product of their norms.
Distance(query_embedding, emb) ==
    LET d == Norm(query_embedding) * Norm(emb)
    IN  IF d = 0 THEN NaN ELSE Num(1 - (Dot(query_embedding, emb) \div d))

\* Mutant of Match: any() in place of all().
MatchAny(meta, filter_dict) ==
    \E k \in DOMAIN filter_dict : k \in DOMAIN meta /\ meta[k] = filter_dict[k]

\* all(self.metadatas[i].get(k) == v for k, v in filter_dict.items())
Match(meta, filter_dict) ==
    \A k \in DOMAIN filter_dict : k \in DOMAIN meta /\ meta[k] = filter_dict[k]

\* The loop of query over enumerate(self.embeddings), from 0-based index i:
\* the (i, distance) pairs in stored order.  self.metadatas[i] raises IndexError
\* when the store holds fewer metadata dicts than embeddings; np.dot raises
\* ValueError when the two vectors differ in length.
RECURSIVE Similarities(_, _, _, _)
Similarities(self, query_embedding, filter_dict, i) ==
    IF i >= Len(self.embeddings)
    THEN [pairs |-> <<>>, raised |-> "None"]
    ELSE IF Truthy(filter_dict) /\ i >= Len(self.metadatas)
    THEN [pairs |-> <<>>, raised |-> "IndexError"]
    ELSE IF Truthy(filter_dict) /\ ~Match(self.metadatas[i + 1], filter_dict)
    THEN Similarities(self, query_embedding, filter_dict, i + 1)
    ELSE IF Len(self.embeddings[i + 1]) # Len(query_embedding)
    THEN [pairs |-> <<>>, raised |-> "ValueError"]
    ELSE LET rest == Similarities(self, query_embedding, filter_dict, i + 1)
         IN  [pairs |-> <<<<i, Distance(query_embedding, self.embeddings[i + 1])>>>>
                          \o rest.pairs,
              raised |-> rest.raised]

\* The comparison list.sort(key=lambda x: x[1]) makes between two pairs.
KeyLt(x, y) == Lt(x[2], y[2])

\* count_run of CPython's list.sort: the length of the run a list starts with,
\* a[1..n] being a run already; a descending run goes on while the next key is
\* strictly less, an ascending one while it is not.
RECURSIVE RunLength(_, _, _)
RunLength(a, n, descending) ==
    IF n >= Len(a) THEN n
    ELSE IF KeyLt(a[n + 1], a[n]) = descending
    THEN RunLength(a, n + 1, descending)
    ELSE n

\* binarysort's search of the place of pivot in the sorted a[l+1..r] (0-based
\* l, r with l < r): the leftmost place after every key that is not greater.
RECURSIVE InsertPos(_, _, _, _)
InsertPos(a, pivot, l, r) ==
    LET p  == l + ((r - l) \div 2)
        l2 == IF KeyLt(pivot, a[p + 1]) THEN l ELSE p + 1
        r2 == IF KeyLt(pivot, a[p + 1]) THEN p ELSE r
    IN  IF l2 < r2 THEN InsertPos(a, pivot, l2, r2) ELSE l2

\* binarysort: a[1..start] is sorted; insert a[start+1], a[start+2], ...
RECURSIVE BinarySort(_, _)
BinarySort(a, start) ==
    IF start >= Len(a) THEN a
    ELSE LET pivot == a[start + 1]
             pos   == InsertPos(a, pivot, 0, start)
         IN  BinarySort(SubSeq(a, 1, pos) \o <<pivot>> \o SubSeq(a, pos + 1, start)
                          \o SubSeq(a, start + 2, Len(a)),
                        start + 1)

\* list.sort on a list shorter than 64 (one run, extended by binary insertion):
\* stable, and ascending when the keys are totally ordered by <.
ListSort(a) ==
    IF Len(a) < 2 THEN a
    ELSE LET descending == KeyLt(a[2], a[1])
             n          == RunLength(a, 2, descending)
             run        == IF descending
                           THEN Reversed(SubSeq(a, 1, n)) \o SubSeq(a, n + 1, Len(a))
                           ELSE a
         IN  BinarySort(run, n)

\* similarities.sort(key=lambda x: x[1])
SortByDistance(pairs) == ListSort(pairs)

\* top_results of query: the (i, distance) pairs it returns the records of.
TopResults(self, query_embedding, n_results, filter_dict) ==
    LET sims == Similarities(self, query_embedding, filter_dict, 0)
    IN  [raised |-> sims.raised,
         top    |-> Slice(SortByDistance(sims.pairs), n_results)]

\* The dict query returns for top_results (ret), with the stored indices of
\* top_results beside it (positions).
QueryResult(self, t) ==
    IF t.raised # "None"
    THEN [raised |-> t.raised, ret |-> EmptyDict, positions |-> <<>>]
    ELSE IF \E j \in DOMAIN t.top :
               \/ t.top[j][1] >= Len(self.ids)
               \/ t.top[j][1] >= Len(self.documents)
               \/ t.top[j][1] >= Len(self.metadatas)
    THEN [raised |-> "IndexError", ret |-> EmptyDict, positions |-> <<>>]
    ELSE [raised |-> "None",
          ret |-> [ids       |-> [j \in DOMAIN t.top |-> self.ids[t.top[j][1] + 1]],
                   documents |-> [j \in DOMAIN t.top |-> self.documents[t.top[j][1] + 1]],
                   metadatas |-> [j \in DOMAIN t.top |-> self.metadatas[t.top[j][1] + 1]],
                   distances |-> [j \in DOMAIN t.top |-> t.top[j][2]]],
          positions |-> [j \in DOMAIN t.top |-> t.top[j][1]]]

\* Mutant of query: an empty store is an error.
query_raises_when_empty(self, query_embedding, n_results, filter_dict) ==
    IF self.embeddings = <<>>
    THEN [raised |-> "ValueError", ret |-> EmptyDict, positions |-> <<>>]
    ELSE QueryResult(self, TopResults(self, query_embedding, n_results, filter_dict))

\* VectorStore.query
query(self, query_embedding, n_results, filter_dict) ==
    IF self.embeddings = <<>>
    THEN [raised |-> "None",
          ret |-> [ids |-> <<>>, documents |-> <<>>, metadatas |-> <<>>,
                   distances |-> <<>>],
          positions |-> <<>>]
    ELSE QueryResult(self, TopResults(self, query_embedding, n_results, filter_dict))

----------------------------------------------------------------------------
(* Inputs of the calls.                                                    *)

\* The lists over S of at most n elements.
SeqUpTo(S, n) == UNION {[1..k -> S] : k \in 0..n}

\* document_id arguments.
DocumentIds == {"d1", "d2"}

\* Chunk dicts handed to add_documents: one as chunk_pages builds them, one
\* without 'page_number' (add_documents reads it with .get), and two that
\* lack a key add_documents reads with [].
ChunkCat == [text |-> "cat", page_number |-> 1, chunk_index |-> 0, chunk_length |-> 3]
ChunkDog == [text |-> "dog", chunk_index |-> 1, chunk_length |-> 3]
ChunkNoLength == [text |-> "dog", page_number |-> 1, chunk_index |-> 0]
ChunkNoIndex == [text |-> "cat", page_number |-> 1, chunk_length |-> 3]
WellFormedChunks == {ChunkCat, ChunkDog}
Chunks == WellFormedChunks \cup {ChunkNoLength, ChunkNoIndex}

\* Embedding vectors: unit vectors along the axes and the zero vector, for
\* which numpy's float arithmetic is exact (distances 0, 1, 2 and nan).
UnitVectors == {<<1, 0>>, <<0, 1>>}
Vectors == UnitVectors \cup {<<-1, 0>>, <<0, 0>>}

\* The (document_id, metadata) arguments of add_documents: one document is
\* added with its file's metadata, the other with none.
Documents == {<<"d1", [filename |-> "a.pdf", num_pages |-> 2]>>, <<"d2", EmptyDict>>}

\* filter_dict arguments of query: none, one key, two keys.
Filters ==
    {EmptyDict} \cup {[document_id |-> d] : d \in DocumentIds}
    \cup {[document_id |-> "d1", page_number |-> 1]}

----------------------------------------------------------------------------
(* Spec: one VectorStore, its public methods called one after another.     *)

\* settings.chunk_size and settings.chunk_overlap, the defaults of TextChunker
chunk_size == 1000
chunk_overlap == 200

\* TextChunker.__init__: it keeps the two values and builds the splitter,
\* whose constructor raises ValueError for chunk_overlap > chunk_size and,
\* when the installed library checks signs (validates_sign), for
\* chunk_size <= 0 and chunk_overlap < 0.  TextChunker checks nothing itself.
TextChunker(size, overlap, validates_sign) ==
    IF validates_sign /\ (size <= 0 \/ overlap < 0)
    THEN [raised |-> "ValueError"]
    ELSE IF overlap > size
    THEN [raised |-> "ValueError"]
    ELSE [raised |-> "None",
          self   |-> [chunk_size |-> size, chunk_overlap |-> overlap]]

\* IngestionService.chunker = TextChunker()
IngestionChunker == TextChunker(chunk_size, chunk_overlap, FALSE).self

NoResult == [op |-> "init", raised |-> "None"]

\* The threads that call the store, none of them in a call, and a round (the
\* calls made since the threads were last all idle) in which none was made.
Threads == {1, 2}
Idle == [pc |-> "idle"]
NoCall == [op |-> "none"]
NoRound ==
    [base |-> EmptyStore, calls |-> [t \in Threads |-> NoCall],
     found |-> [t \in Threads |-> EmptyStore], joined |-> 0]

Init ==
    /\ vector_store = EmptyStore
    /\ retrieval_vector_store = EmptyStore
    /\ result = NoResult
    /\ llm_calls = 0
    /\ threads = [t \in Threads |-> Idle]
    /\ round = NoRound
    /\ chunker = IngestionChunker

\* store.add_documents(chunks, embeddings, document_id, metadata), the lists
\* drawn from the given sets.
AddDocumentsFrom(chunk_lists, embedding_lists) ==
    \E chunks \in chunk_lists, embeddings \in embedding_lists, doc \in Documents :
        LET document_id == doc[1]
            metadata == doc[2]
            out == add_documents(vector_store, chunks, embeddings, document_id, metadata)
        IN  /\ Len(vector_store.ids) + Len(chunks) <= MaxRecords
            /\ vector_store' = out.store
            /\ result' = [op |-> "add_documents", raised |-> out.raised,
                          mismatch |-> Len(chunks) # Len(embeddings)]
            /\ UNCHANGED <<chunker, retrieval_vector_store, llm_calls, threads, round>>

\* store.delete_document(document_id); the method returns None and logs the
\* number of indices it set out to remove.
DeleteDocumentFrom(document_ids) ==
    \E document_id \in document_ids :
        LET out == delete_document(vector_store, document_id)
        IN  /\ vector_store' = out.store
            /\ result' = [op |-> "delete_document", raised |-> out.raised,
                          document_id |-> document_id, ret |-> None,
                          logged |-> Len(IndicesToRemove(vector_store.metadatas,
                                                         document_id, 0))]
            /\ UNCHANGED <<chunker, retrieval_vector_store, llm_calls, threads, round>>

\* store.query(query_embedding, n_results, filter_dict), the arguments drawn
\* from the given sets.
QueryFrom(query_embeddings, n_results_set, filters) ==
    \E query_embedding \in query_embeddings, n_results \in n_results_set,
       filter_dict \in filters :
        \E out \in {query(vector_store, query_embedding, n_results, filter_dict)} :
            /\ result' = [op |-> "query", raised |-> out.raised, ret |-> out.ret,
                          positions |-> out.positions,
                          query_embedding |-> query_embedding,
                          n_results |-> n_results,
                          filter_dict |-> filter_dict]
            /\ UNCHANGED <<chunker, vector_store, retrieval_vector_store, llm_calls,
                           threads, round>>

AddDocuments ==
    AddDocumentsFrom(SeqUpTo(Chunks, MaxChunks), SeqUpTo(UnitVectors, MaxChunks))

DeleteDocument == DeleteDocumentFrom(DocumentIds \cup {"d3"})

\* store.get_document_count()
GetDocumentCount ==
    /\ result' = [op |-> "get_document_count", raised |-> "None",
                  ret |-> get_document_count(vector_store)]
    /\ UNCHANGED <<chunker, vector_store, retrieval_vector_store, llm_calls, threads, round>>

\* store.list_documents()
ListDocuments ==
    /\ result' = [op |-> "list_documents", raised |-> "None",
                  ret |-> list_documents(vector_store)]
    /\ UNCHANGED <<chunker, vector_store, retrieval_vector_store, llm_calls, threads, round>>

\* store.query(query_embedding): the default n_results, no filter
QueryAll == QueryFrom({<<1, 0>>}, {top_k_results}, {EmptyDict})

Next ==
    \/ AddDocuments
    \/ DeleteDocument
    \/ GetDocumentCount
    \/ ListDocuments
    \/ QueryAll

Spec == Init /\ [][Next]_vars

----------------------------------------------------------------------------
(* SpecFilter: a store of two documents' chunks, all with one vector,      *)
(* queried under filters.                                                  *)

FilterAdd ==
    AddDocumentsFrom({<<c>> : c \in {ChunkCat, ChunkDog, ChunkNoLength}},
                     {<<v>> : v \in {<<1, 0>>}})

FilterDelete == DeleteDocumentFrom(DocumentIds)

FilterQuery == QueryFrom({<<1, 0>>, <<0, 0>>}, 0..MaxResults, Filters)

NextFilter == FilterAdd \/ FilterDelete \/ FilterQuery

SpecFilter == Init /\ [][NextFilter]_vars

----------------------------------------------------------------------------
(* SpecRank: a store of vectors at every distance, queried for its ranking. *)

RankAdd ==
    AddDocumentsFrom({<<ChunkCat>>}, {<<v>> : v \in Vectors})

RankDelete == DeleteDocumentFrom(DocumentIds)

RankQuery ==
    QueryFrom({<<1, 0>>, <<0, 0>>}, 0..MaxResults, {EmptyDict, [document_id |-> "d1"]})

NextRank == RankAdd \/ RankDelete \/ RankQuery

SpecRank == Init /\ [][NextRank]_vars

----------------------------------------------------------------------------
(* The services.  What the PDF library, the text splitter, the embedding   *)
(* provider and the LLM provider do is an input of each call.              *)

\* Largest number of text pages of an uploaded PDF.
MaxPages == 3
\* Largest number of requests for embeddings one ingestion makes.
MaxBatches == 2
\* The default of batch_size of generate_embeddings_batch, which ingest_pdf
\* leaves in place.
default_batch_size == 100
\* Largest number of generate_response invocations followed.
MaxLlmCalls == 2
\* Largest number of times the threads are started and joined.
MaxRounds == 2

\* The separators TextChunker gives its RecursiveCharacterTextSplitter.
separators == <<"\n\n", "\n", ". ", " ", "">>

\* sep stands in text at position i.
Found(text, sep, i) ==
    /\ i + Len(sep) - 1 <= Len(text)
    /\ SubSeq(text, i, i + Len(sep) - 1) = sep

\* re.search(re.escape(sep), text) for a non-empty sep
Search(text, sep) == \E i \in 1..Len(text) : Found(text, sep, i)

\* re.split on the separator with each separator kept at the start of the
\* piece that follows it (keep_separator=True), scanning from position i;
\* start: where the piece being read begins.
RECURSIVE SplitLoop(_, _, _, _, _)
SplitLoop(text, sep, i, start, splits) ==
    IF i > Len(text)
    THEN splits \o <<SubSeq(text, start, Len(text))>>
    ELSE IF Found(text, sep, i)
    THEN SplitLoop(text, sep, i + Len(sep), i,
                   splits \o <<SubSeq(text, start, i - 1)>>)
    ELSE SplitLoop(text, sep, i + 1, start, splits)

NonEmpty(s) == s # ""

\* _split_text_with_regex: the pieces of text, the empty ones dropped; the
\* empty separator gives the characters.
split_text_with_regex(text, sep) ==
    IF sep = ""
    THEN [k \in 1..Len(text) |-> SubSeq(text, k, k)]
    ELSE SelectSeq(SplitLoop(text, sep, 1, 1, <<>>), NonEmpty)

\* The whitespace characters of the texts of the model.
Whitespace == {" ", "\n"}

\* str.strip()
RECURSIVE LStrip(_)
LStrip(text) ==
    IF text # "" /\ SubSeq(text, 1, 1) \in Whitespace
    THEN LStrip(SubSeq(text, 2, Len(text)))
    ELSE text
RECURSIVE RStrip(_)
RStrip(text) ==
    IF text # "" /\ SubSeq(text, Len(text), Len(text)) \in Whitespace
    THEN RStrip(SubSeq(text, 1, Len(text) - 1))
    ELSE text
Strip(text) == RStrip(LStrip(text))

\* separator.join(docs)
RECURSIVE StrJoin(_, _)
StrJoin(docs, separator) ==
    IF docs = <<>> THEN ""
    ELSE IF Len(docs) = 1 THEN docs[1]
    ELSE docs[1] \o separator \o StrJoin(Tail(docs), separator)

\* _join_docs: the stripped join as a list of one chunk, or of none when
\* nothing but whitespace is left (the None that _merge_splits drops).
join_docs(docs, separator) ==
    LET text == Strip(StrJoin(docs, separator))
    IN  IF text = "" THEN <<>> ELSE <<text>>

\* Length of the separator that joining adds when current_doc has more than
\* `more` pieces.
SeparatorLen(current_doc, separator, more) ==
    IF Len(current_doc) > more THEN Len(separator) ELSE 0

\* Mutant of MustFlush: the piece to come is not counted.
MustFlush_without_next(self, total, len, separator_len) ==
    total > self.chunk_size

\* _merge_splits: the piece of length len does not fit the chunk in the
\* making.
MustFlush(self, total, len, separator_len) ==
    total + len + separator_len > self.chunk_size

\* The while loop of _merge_splits: pieces leave the front of current_doc
\* until what stays is the overlap and leaves room for the next piece.
RECURSIVE PopLoop(_, _, _, _, _)
PopLoop(self, current_doc, total, len, separator) ==
    IF \/ total > self.chunk_overlap
       \/ /\ total + len + SeparatorLen(current_doc, separator, 0) > self.chunk_size
          /\ total > 0
    THEN PopLoop(self, Tail(current_doc),
                 total - (Len(current_doc[1])
                          + SeparatorLen(current_doc, separator, 1)),
                 len, separator)
    ELSE [current_doc |-> current_doc, total |-> total]

\* The for loop of _merge_splits from piece k on.
RECURSIVE MergeLoop(_, _, _, _, _, _, _)
MergeLoop(self, splits, k, separator, docs, current_doc, total) ==
    IF k > Len(splits)
    THEN docs \o join_docs(current_doc, separator)
    ELSE
    LET d       == splits[k]
        len     == Len(d)
        flushed == /\ MustFlush(self, total, len,
                                SeparatorLen(current_doc, separator, 0))
                   /\ Len(current_doc) > 0
        kept    == IF flushed
                   THEN PopLoop(self, current_doc, total, len, separator)
                   ELSE [current_doc |-> current_doc, total |-> total]
        next    == kept.current_doc \o <<d>>
    IN  MergeLoop(self, splits, k + 1, separator,
                  IF flushed THEN docs \o join_docs(current_doc, separator)
                             ELSE docs,
                  next, kept.total + len + SeparatorLen(next, separator, 1))

\* RecursiveCharacterTextSplitter._merge_splits
merge_splits(self, splits, separator) ==
    MergeLoop(self, splits, 1, separator, <<>>, <<>>, 0)

\* The first loop of _split_text: the first separator found in the text and
\* the separators after it; the empty separator is always found.
RECURSIVE ChooseSeparator(_, _, _)
ChooseSeparator(text, seps, i) ==
    IF i > Len(seps)
    THEN [separator |-> seps[Len(seps)], new_separators |-> <<>>]
    ELSE IF seps[i] = ""
    THEN [separator |-> "", new_separators |-> <<>>]
    ELSE IF Search(text, seps[i])
    THEN [separator |-> seps[i], new_separators |-> SubSeq(seps, i + 1, Len(seps))]
    ELSE ChooseSeparator(text, seps, i + 1)

RECURSIVE SplitText(_, _, _)
RECURSIVE GoodLoop(_, _, _, _, _, _)

\* The second loop of _split_text from piece k on: pieces shorter than
\* chunk_size are merged, the others are split with the separators left, or
\* kept whole when none is left.
GoodLoop(self, splits, k, new_separators, good_splits, final_chunks) ==
    LET merged == IF good_splits # <<>>
                  THEN merge_splits(self, good_splits, "")
                  ELSE <<>>
    IN
    IF k > Len(splits)
    THEN final_chunks \o merged
    ELSE IF Len(splits[k]) < self.chunk_size
    THEN GoodLoop(self, splits, k + 1, new_separators,
                  good_splits \o <<splits[k]>>, final_chunks)
    ELSE GoodLoop(self, splits, k + 1, new_separators, <<>>,
                  final_chunks \o merged
                  \o (IF new_separators = <<>>
                      THEN <<splits[k]>>
                      ELSE SplitText(self, splits[k], new_separators)))

\* RecursiveCharacterTextSplitter._split_text
SplitText(self, text, seps) ==
    LET chosen == ChooseSeparator(text, seps, 1)
    IN  GoodLoop(self, split_text_with_regex(text, chosen.separator), 1,
                 chosen.new_separators, <<>>, <<>>)

\* self.splitter.split_text(page_text)
split_text(self, page_text) == SplitText(self, page_text, separators)

\* Mutant of PageChunks: chunk_index counts within the page.
PageChunks_counting_per_page(page_data, text_chunks, global_chunk_index) ==
    [local_idx \in 1..Len(text_chunks) |->
        [text              |-> text_chunks[local_idx],
         page_number       |-> page_data.page_number,
         chunk_index       |-> local_idx - 1,
         local_chunk_index |-> local_idx - 1,
         chunk_length      |-> Len(text_chunks[local_idx])]]

\* The inner loop of chunk_pages: the chunk dicts of one page.
PageChunks(page_data, text_chunks, global_chunk_index) ==
    [local_idx \in 1..Len(text_chunks) |->
        [text              |-> text_chunks[local_idx],
         page_number       |-> page_data.page_number,
         chunk_index       |-> global_chunk_index + local_idx - 1,
         local_chunk_index |-> local_idx - 1,
         chunk_length      |-> Len(text_chunks[local_idx])]]

\* The outer loop of chunk_pages, from page p on.
RECURSIVE ChunkLoop(_, _, _, _, _)
ChunkLoop(self, pages, p, all_chunks, global_chunk_index) ==
    IF p > Len(pages)
    THEN all_chunks
    ELSE LET new == PageChunks(pages[p], split_text(self, pages[p].text),
                               global_chunk_index)
         IN  ChunkLoop(self, pages, p + 1, all_chunks \o new,
                       global_chunk_index + Len(new))

\* Mutant of chunk_pages: each page's chunks are put before those gathered.
chunk_pages_newest_first(self, pages, splitter_raises) ==
    IF splitter_raises /\ pages # <<>>
    THEN [raised |-> "Exception", chunks |-> <<>>]
    ELSE LET chunks == ChunkLoop(self, pages, 1, <<>>, 0)
         IN  [raised |-> "None",
              chunks |-> [k \in 1..Len(chunks) |->
                            [chunks[Len(chunks) + 1 - k] EXCEPT !.chunk_index = k - 1]]]

\* TextChunker.chunk_pages; splitter_raises: the splitter raises on a page.
chunk_pages(self, pages, splitter_raises) ==
    IF splitter_raises /\ pages # <<>>
    THEN [raised |-> "Exception", chunks |-> <<>>]
    ELSE [raised |-> "None", chunks |-> ChunkLoop(self, pages, 1, <<>>, 0)]

\* The vector the embedding provider returns for a text.
Embedding(text) == IF text = "cat" THEN <<1, 0>> ELSE <<0, 1>>

\* Mutant of SliceFrom: the slice takes one item too many.
SliceFrom_one_more(seq, i, j) ==
    SubSeq(seq, i + 1, IF j + 1 < Len(seq) THEN j + 1 ELSE Len(seq))

\* texts[i:j], i and j 0-based.
SliceFrom(seq, i, j) ==
    SubSeq(seq, i + 1, IF j < Len(seq) THEN j ELSE Len(seq))

\* The loop of generate_embeddings_batch from index i, all_embeddings gathered
\* so far in calls requests.  The provider raises on request number fails_at
\* (0: on none); with short_response its response.data to the last request
\* lacks the last item.
RECURSIVE EmbedLoop(_, _, _, _, _, _)
EmbedLoop(texts, batch_size, provider, i, all_embeddings, calls) ==
    IF i >= Len(texts)
    THEN [raised |-> "None", embeddings |-> all_embeddings, calls |-> calls]
    ELSE IF provider.fails_at = calls + 1
    THEN [raised |-> "APIError", embeddings |-> <<>>, calls |-> calls + 1]
    ELSE LET batch == SliceFrom(texts, i, i + batch_size)
             data  == [k \in DOMAIN batch |-> Embedding(batch[k])]
             batch_embeddings ==
                 IF provider.short_response /\ i + batch_size >= Len(texts)
                 THEN SubSeq(data, 1, Len(data) - 1)
                 ELSE data
         IN  EmbedLoop(texts, batch_size, provider, i + batch_size,
                       all_embeddings \o batch_embeddings, calls + 1)

\* EmbeddingGenerator.generate_embeddings_batch
generate_embeddings_batch(texts, batch_size, provider) ==
    EmbedLoop(texts, batch_size, provider, 0, <<>>, 0)

\* n times the same call.
Times(n, call) == [k \in 1..n |-> call]

\* A failed ingest_pdf: the exception is logged and raised again.
IngestFailed(store, raised, calls) ==
    [store |-> store, raised |-> raised, ret |-> EmptyDict, calls |-> calls]

\* IngestionService.ingest_pdf on the service's store, with the calls it made
\* in order.  file: what process_pdf does with the uploaded file.
ingest_pdf(self, document_id, file, filename, provider) ==
    IF file.raised # "None"
    THEN IngestFailed(self, file.raised, <<"process_pdf">>)
    ELSE
    LET pdf_data  == file.pdf_data
        num_pages == pdf_data.metadata.num_pages
        chunked   == chunk_pages(IngestionChunker, pdf_data.pages,
                                 provider.splitter_raises)
    IN
    IF chunked.raised # "None"
    THEN IngestFailed(self, chunked.raised, <<"process_pdf", "chunk_pages">>)
    ELSE
    LET chunks     == chunked.chunks
        num_chunks == Len(chunks)
        texts      == [k \in DOMAIN chunks |-> chunks[k].text]
        embedded   == generate_embeddings_batch(texts, default_batch_size, provider)
        requests   == <<"process_pdf", "chunk_pages">>
                      \o Times(embedded.calls, "embeddings.create")
    IN
    IF embedded.raised # "None"
    THEN IngestFailed(self, embedded.raised, requests)
    ELSE
    LET metadata == [filename  |-> filename,
                     title     |-> Get(pdf_data.metadata, "title", "Unknown"),
                     author    |-> Get(pdf_data.metadata, "author", "Unknown"),
                     num_pages |-> num_pages]
        added    == add_documents(self, chunks, embedded.embeddings, document_id,
                                  metadata)
    IN
    IF added.raised # "None"
    THEN IngestFailed(added.store, added.raised, requests \o <<"add_documents">>)
    ELSE [store  |-> added.store,
          raised |-> "None",
          ret    |-> [document_id |-> document_id,
                      filename    |-> filename,
                      num_pages   |-> num_pages,
                      num_chunks  |-> num_chunks,
                      metadata    |-> metadata],
          calls  |-> requests \o <<"add_documents">>]

\* IngestionService.delete_document: True, or False when the store raised.
service_delete_document(self, document_id) ==
    LET out == delete_document(self, document_id)
    IN  [store |-> out.store, ret |-> out.raised = "None"]

\* The answer of RetrievalService.query when the store returns no document.
NoInformation ==
    [answer       |-> "I couldn't find any relevant information to answer your question.",
     sources      |-> <<>>,
     document_ids |-> {},
     model_used   |-> "gpt-3.5-turbo",
     tokens_used  |-> 0]

\* Mutant of SourceText: a text of 500 characters is cut too.
SourceText_cutting_at_500(text) ==
    IF Len(text) >= 500 THEN SubSeq(text, 1, 500) \o "..." ELSE text

\* text[:500] + "..." if len(text) > 500 else text
SourceText(text) ==
    IF Len(text) > 500 THEN SubSeq(text, 1, 500) \o "..." ELSE text

\* Steps 3 and 4 of RetrievalService.query: the answer generated from the
\* retrieved documents, with its sources.  document_ids is list(set(...)): a
\* list in no particular order, kept as the set.  round(distance, 3) leaves
\* the distances of the model (0, 1, 2 and nan) as they are.
\* context_chunks: the texts given to generate_response.
Generated(results, llm) ==
    IF llm.raised # "None"
    THEN [raised |-> llm.raised, ret |-> EmptyDict, generated |-> 1,
          context_chunks |-> results.documents]
    ELSE [raised |-> "None",
          context_chunks |-> results.documents,
          ret |-> [answer  |-> llm.response.response,
                   sources |-> [i \in DOMAIN results.documents |->
                       [text            |-> SourceText(results.documents[i]),
                        page_number     |-> Get(results.metadatas[i], "page_number", 0),
                        chunk_index     |-> Get(results.metadatas[i], "chunk_index", i - 1),
                        relevance_score |-> results.distances[i]]],
                   document_ids |-> {Get(results.metadatas[i], "document_id", "unknown") :
                                        i \in DOMAIN results.metadatas},
                   model_used   |-> llm.response.model,
                   tokens_used  |-> llm.response.usage.total_tokens],
          generated |-> 1]

\* Steps 1 and 2 of RetrievalService.query: the question is embedded and the
\* store queried; document_id None (or '') gives no filter.
Retrieved(self, question, top_k, document_id, embedder_raises) ==
    IF embedder_raises
    THEN [raised |-> "APIError", ret |-> EmptyDict]
    ELSE LET filter_dict == IF document_id # "" THEN [document_id |-> document_id]
                            ELSE EmptyDict
         IN  query(self, Embedding(question), top_k, filter_dict)

\* Mutant of retrieval_query: the answer is generated before the retrieved
\* documents are looked at.
retrieval_query_generates_first(self, question, top_k, document_id, embedder_raises, llm) ==
    LET results == Retrieved(self, question, top_k, document_id, embedder_raises)
    IN  IF results.raised # "None"
        THEN [raised |-> results.raised, ret |-> EmptyDict, generated |-> 0,
              retrieved |-> -1]
        ELSE [retrieved |-> Len(results.ret.documents)] @@ Generated(results.ret, llm)

\* RetrievalService.query on the service's store.  generated: the number of
\* generate_response invocations of the call; retrieved: the number of
\* documents the store returned (-1: the store was not reached or raised).
retrieval_query(self, question, top_k, document_id, embedder_raises, llm) ==
    LET results == Retrieved(self, question, top_k, document_id, embedder_raises)
    IN  IF results.raised # "None"
        THEN [raised |-> results.raised, ret |-> EmptyDict, generated |-> 0,
              retrieved |-> -1]
        ELSE IF results.ret.documents = <<>>
        THEN [raised |-> "None", ret |-> NoInformation, generated |-> 0,
              retrieved |-> 0]
        ELSE [retrieved |-> Len(results.ret.documents)] @@ Generated(results.ret, llm)

\* The files uploaded: one process_pdf raises on, and PDFs of MaxPages pages
\* of which those of one set carry text.
PageText(page_number) == IF page_number % 2 = 1 THEN "cat" ELSE "dog"
Ascending(S) ==
    CHOOSE seq \in [1..Cardinality(S) -> S] :
        \A i, j \in 1..Cardinality(S) : i < j => seq[i] < seq[j]
PdfData(text_pages) ==
    [pages    |-> [k \in 1..Cardinality(text_pages) |->
                      [page_number |-> Ascending(text_pages)[k],
                       text        |-> PageText(Ascending(text_pages)[k])]],
     metadata |-> [title |-> "Unknown", author |-> "Unknown",
                   num_pages |-> MaxPages, extraction_method |-> "pypdf"]]
Files ==
    {[raised |-> "FileNotFoundError"]}
    \cup {[raised |-> "None", pdf_data |-> PdfData(S)] : S \in SUBSET (1..MaxPages)}

\* What the splitter and the embedding provider do during one ingest_pdf.
Providers ==
    [splitter_raises : BOOLEAN, fails_at : 0..MaxBatches, short_response : BOOLEAN]

\* What the LLM provider does with one generate_response.
LlmOutcomes ==
    {[raised |-> "APIError"],
     [raised |-> "None",
      response |-> [response |-> "According to Chunk 1", model |-> "gpt-3.5-turbo",
                    usage |-> [total_tokens |-> 7]]]}

----------------------------------------------------------------------------
(* SpecServices: the two services of app/api/routes.py, each with the       *)
(* VectorStore its constructor made.                                        *)

\* ingestion_service.ingest_pdf(file_path, filename), in the case of a
\* generated id that no stored document has (SpecIngest draws the id).
IngestPdf ==
    \E file \in Files, provider \in Providers,
       document_id \in DocumentIds \ list_documents(vector_store) :
        \E out \in {ingest_pdf(vector_store, document_id, file, "a.pdf", provider)} :
            /\ Len(out.store.ids) <= MaxRecords
            /\ vector_store' = out.store
            /\ result' = [op |-> "ingest_pdf", raised |-> out.raised, ret |-> out.ret,
                          calls |-> out.calls, file |-> file, provider |-> provider]
            /\ UNCHANGED <<chunker, retrieval_vector_store, llm_calls, threads, round>>

\* ingestion_service.delete_document(document_id)
ServiceDeleteDocument ==
    \E document_id \in DocumentIds :
        LET out == service_delete_document(vector_store, document_id)
        IN  /\ vector_store' = out.store
            /\ result' = [op |-> "service_delete_document", raised |-> "None",
                          ret |-> out.ret, document_id |-> document_id]
            /\ UNCHANGED <<chunker, retrieval_vector_store, llm_calls, threads, round>>

\* retrieval_service.query(question, top_k, document_id)
Answer ==
    \E question \in {"cat", "dog"}, top_k \in {1, top_k_results},
       document_id \in {""} \cup DocumentIds, embedder_raises \in BOOLEAN,
       llm \in LlmOutcomes :
        \E out \in {retrieval_query(retrieval_vector_store, question, top_k,
                                    document_id, embedder_raises, llm)} :
            /\ llm_calls + out.generated <= MaxLlmCalls
            /\ llm_calls' = llm_calls + out.generated
            /\ result' = [op |-> "answer", raised |-> out.raised, ret |-> out.ret,
                          retrieved |-> out.retrieved, question |-> question,
                          top_k |-> top_k, document_id |-> document_id,
                          generated |-> out.generated,
                          context_chunks |-> IF out.generated > 0
                                             THEN out.context_chunks ELSE <<>>]
            /\ UNCHANGED <<chunker, vector_store, retrieval_vector_store, threads, round>>

NextServices == IngestPdf \/ ServiceDeleteDocument \/ Answer

SpecServices == Init /\ [][NextServices]_vars

----------------------------------------------------------------------------
(* SpecRetrieval: a RetrievalService whose store a caller has filled (no    *)
(* code of the application adds to it).                                     *)

\* retrieval_service.vector_store.add_documents(chunks, embeddings, ...)
RetrievalAdd ==
    \E chunk \in WellFormedChunks, doc \in Documents :
        LET out == add_documents(retrieval_vector_store, <<chunk>>,
                                 <<Embedding(chunk.text)>>, doc[1], doc[2])
        IN  /\ Len(retrieval_vector_store.ids) < MaxRecords
            /\ retrieval_vector_store' = out.store
            /\ result' = [op |-> "add_documents", raised |-> out.raised,
                          mismatch |-> FALSE]
            /\ UNCHANGED <<chunker, vector_store, llm_calls, threads, round>>

NextRetrieval == RetrievalAdd \/ Answer

SpecRetrieval == Init /\ [][NextRetrieval]_vars

----------------------------------------------------------------------------
(* SpecThreads: one VectorStore called from two threads.  The store takes  *)
(* no lock, so a thread may be switched out between any two statements of  *)
(* add_documents and delete_document that touch a list, and between any    *)
(* two reads of a list that list_documents and query make;                 *)
(* get_document_count reads one length.  The threads are joined when each  *)
(* call has returned or raised.                                            *)

\* The four lists, in the order add_documents appends to them and
\* delete_document deletes from them.
Fields == <<"ids", "documents", "embeddings", "metadatas">>

\* What add_documents appends to list f for its k-th chunk.
Appended(call, k, f) ==
    CASE f = 1 -> ChunkId(call.document_id, call.chunks[k]["chunk_index"])
      [] f = 2 -> call.chunks[k]["text"]
      [] f = 3 -> call.embeddings[k]
      [] f = 4 -> ChunkMeta(call.chunks[k], call.document_id, call.metadata)

\* The store a writing call makes of a store when nothing runs beside it.
Written(self, call) ==
    IF call.op = "add_documents"
    THEN add_documents(self, call.chunks, call.embeddings, call.document_id,
                       call.metadata).store
    ELSE IF call.op = "delete_document"
    THEN delete_document(self, call.document_id).store
    ELSE self

\* What a reading call returns on a store, or raises.
ReadValue(self, call) ==
    IF call.op = "get_document_count"
    THEN [raised |-> "None", ret |-> get_document_count(self)]
    ELSE IF call.op = "list_documents"
    THEN [raised |-> "None", ret |-> list_documents(self)]
    ELSE LET out == query(self, call.query_embedding, call.n_results, call.filter_dict)
         IN  [raised |-> out.raised, ret |-> out.ret]

\* The calls the threads make.
WriteOps == {"add_documents", "delete_document"}
AddCalls ==
    {[op |-> "add_documents", chunks |-> chunks,
      embeddings |-> [k \in DOMAIN chunks |-> Embedding(chunks[k].text)],
      document_id |-> "d1", metadata |-> [filename |-> "a.pdf", num_pages |-> 2]] :
        chunks \in {<<ChunkCat, ChunkDog>>}}
    \cup
    {[op |-> "add_documents", chunks |-> <<ChunkCat>>, embeddings |-> <<<<1, 0>>>>,
      document_id |-> "d2", metadata |-> EmptyDict]}
ReadCalls ==
    {[op |-> "get_document_count"], [op |-> "list_documents"],
     [op |-> "query", query_embedding |-> <<1, 0>>, n_results |-> top_k_results,
      filter_dict |-> [document_id |-> "d1"]]}

\* The ids a thread in add_documents has still to append.
IdsToCome(th) ==
    IF th.pc = "add_documents"
    THEN Len(th.call.chunks) - th.k + (IF th.f = 1 THEN 1 ELSE 0)
    ELSE 0

\* The longest of the four lists.
MaxLen(S) ==
    LET lens == {Len(S.ids), Len(S.documents), Len(S.embeddings), Len(S.metadatas)}
    IN  CHOOSE n \in lens : \A m \in lens : n >= m

\* The round with the call thread t begins, and the store the call finds;
\* the first call of a round finds the store the round is measured against.
Begun(t, call) ==
    [base  |-> IF \A u \in Threads : round.calls[u] = NoCall
               THEN vector_store ELSE round.base,
     calls |-> [round.calls EXCEPT ![t] = call],
     found |-> [round.found EXCEPT ![t] = vector_store],
     joined |-> round.joined]

CanBegin(t) ==
    threads[t] = Idle /\ round.calls[t] = NoCall /\ round.joined < MaxRounds

\* Thread t calls add_documents: the length check passes, the loop is at the
\* first append of the first chunk.
BeginAdd(t) ==
    \E call \in AddCalls :
        /\ CanBegin(t)
        /\ MaxLen(vector_store) + Len(call.chunks)
              + IdsToCome(threads[CHOOSE u \in Threads : u # t]) <= MaxRecords
        /\ threads' = [threads EXCEPT ![t] =
              [pc |-> "add_documents", call |-> call,
               k |-> 1, f |-> 1]]
        /\ round' = Begun(t, call)
        /\ result' = [op |-> "begin", raised |-> "None"]
        /\ UNCHANGED <<chunker, vector_store, retrieval_vector_store, llm_calls>>

\* Thread t executes the next append of add_documents.
AddStep(t) ==
    /\ threads[t].pc = "add_documents"
    /\ LET th == threads[t]
           last == th.f = 4 /\ th.k = Len(th.call.chunks)
       IN  /\ vector_store' = [vector_store EXCEPT ![Fields[th.f]] =
                                  Append(@, Appended(th.call, th.k, th.f))]
           /\ threads' = [threads EXCEPT ![t] =
                 IF last THEN [pc |-> "done"]
                 ELSE IF th.f = 4 THEN [th EXCEPT !.k = @ + 1, !.f = 1]
                 ELSE [th EXCEPT !.f = @ + 1]]
    /\ UNCHANGED <<chunker, retrieval_vector_store, result, llm_calls, round>>

\* Thread t calls delete_document: indices_to_remove is still to be computed.
BeginDelete(t) ==
    \E document_id \in DocumentIds :
        LET call == [op |-> "delete_document", document_id |-> document_id]
        IN  /\ CanBegin(t)
            /\ threads' = [threads EXCEPT ![t] =
                  [pc |-> "scan", call |-> call,
                   i |-> 0, indices_to_remove |-> <<>>]]
            /\ round' = Begun(t, call)
            /\ result' = [op |-> "begin", raised |-> "None"]
            /\ UNCHANGED <<chunker, vector_store, retrieval_vector_store, llm_calls>>

\* Thread t takes the next item of enumerate(self.metadatas) in the
\* comprehension of indices_to_remove; when the list has no item at i, the
\* indices found are sorted in reverse and the loop of dels begins.
Scan(t) ==
    /\ threads[t].pc = "scan"
    /\ LET th   == threads[t]
           todo == Reversed(th.indices_to_remove)
           \* meta.get("document_id") == document_id on the item at i
           matches == /\ "document_id" \in DOMAIN vector_store.metadatas[th.i + 1]
                      /\ vector_store.metadatas[th.i + 1]["document_id"]
                            = th.call.document_id
       IN  threads' = [threads EXCEPT ![t] =
              IF th.i < Len(vector_store.metadatas)
              THEN [th EXCEPT !.i = @ + 1,
                              !.indices_to_remove =
                                  IF matches THEN Append(@, th.i) ELSE @]
              ELSE IF todo = <<>> THEN [pc |-> "done"]
              ELSE [pc |-> "delete_document", call |-> th.call,
                    todo |-> todo, f |-> 1]]
    /\ UNCHANGED <<chunker, vector_store, retrieval_vector_store, result, llm_calls, round>>

\* Thread t executes the next del of delete_document; an index out of range
\* raises IndexError and ends the call.
DeleteStep(t) ==
    /\ threads[t].pc = "delete_document"
    /\ LET th == threads[t]
           i  == Head(th.todo)
           in_range == i < Len(vector_store[Fields[th.f]])
       IN  /\ vector_store' =
                 IF in_range
                 THEN [vector_store EXCEPT ![Fields[th.f]] = RemoveAt(@, i)]
                 ELSE vector_store
           /\ threads' = [threads EXCEPT ![t] =
                 IF ~in_range \/ (th.f = 4 /\ Tail(th.todo) = <<>>)
                 THEN [pc |-> "done"]
                 ELSE IF th.f = 4 THEN [th EXCEPT !.todo = Tail(@), !.f = 1]
                 ELSE [th EXCEPT !.f = @ + 1]]
    /\ UNCHANGED <<chunker, retrieval_vector_store, result, llm_calls, round>>

\* The reading call of thread t returns or raises out.  When the other
\* thread's writing call of the round had not ended as the reading call
\* began, the result keeps the store that writing call found (before) and the
\* store it makes of it when run alone (after).
Returned(t, out) ==
    LET u  == CHOOSE u \in Threads : u # t
        th == threads[t]
        concurrent == round.calls[u].op \in WriteOps /\ ~th.other_done
    IN  /\ threads' = [threads EXCEPT ![t] = [pc |-> "done"]]
        /\ result' = [op |-> th.call.op, raised |-> out.raised, ret |-> out.ret,
                      call |-> th.call, concurrent |-> concurrent,
                      before |-> IF concurrent THEN round.found[u]
                                 ELSE vector_store,
                      after  |-> IF concurrent
                                 THEN Written(round.found[u], round.calls[u])
                                 ELSE vector_store]

\* Thread t calls a reading method and is at its first statement:
\* get_document_count before len(self.documents), list_documents before the
\* first item of its generator, query before the test of self.embeddings.
Read(t) ==
    \E call \in ReadCalls :
        LET u == CHOOSE u \in Threads : u # t
            other_done == threads[u].pc = "done"
        IN  /\ CanBegin(t)
            /\ threads' = [threads EXCEPT ![t] =
                  IF call.op = "get_document_count"
                  THEN [pc |-> "get_document_count", call |-> call,
                        other_done |-> other_done]
                  ELSE IF call.op = "list_documents"
                  THEN [pc |-> "list_documents", call |-> call,
                        other_done |-> other_done, i |-> 0, document_ids |-> {}]
                  ELSE [pc |-> "query", call |-> call, other_done |-> other_done,
                        at |-> "empty", i |-> 0, emb |-> <<>>, similarities |-> <<>>,
                        top_results |-> <<>>, f |-> 1, j |-> 1,
                        got |-> <<<<>>, <<>>, <<>>>>]]
            /\ round' = Begun(t, call)
            /\ result' = [op |-> "begin", raised |-> "None"]
            /\ UNCHANGED <<chunker, vector_store, retrieval_vector_store, llm_calls>>

\* Thread t returns len(self.documents).
CountStep(t) ==
    /\ threads[t].pc = "get_document_count"
    /\ Returned(t, [raised |-> "None", ret |-> Len(vector_store.documents)])
    /\ UNCHANGED <<chunker, vector_store, retrieval_vector_store, llm_calls, round>>

\* Thread t takes the next item of self.metadatas in the generator of
\* list_documents; when the list has no item at i, the set is returned.
ListStep(t) ==
    /\ threads[t].pc = "list_documents"
    /\ LET th == threads[t]
       IN  IF th.i < Len(vector_store.metadatas)
           THEN /\ threads' = [threads EXCEPT ![t] =
                      [th EXCEPT !.i = @ + 1,
                                 !.document_ids =
                                     @ \cup {Get(vector_store.metadatas[th.i + 1],
                                                 "document_id", "")}]]
                /\ UNCHANGED result
           ELSE Returned(t, [raised |-> "None", ret |-> th.document_ids])
    /\ UNCHANGED <<chunker, vector_store, retrieval_vector_store, llm_calls, round>>

\* Thread t executes the next statement of query that reads a list, up to
\* the sort: the test of self.embeddings (at "empty"), the next item of
\* enumerate(self.embeddings) (at "for"), the read of self.metadatas[i] for
\* the filter (at "match"; the filters of ReadCalls have one key, so all()
\* reads the list once).  The distance is computed on the embedding the loop
\* took, and the sort and the slice work on the list of the call.
QueryStep(t) ==
    /\ threads[t].pc = "query"
    /\ threads[t].at \in {"empty", "for", "match"}
    /\ LET th   == threads[t]
           call == th.call
           NoRecords == [ids |-> <<>>, documents |-> <<>>, metadatas |-> <<>>,
                         distances |-> <<>>]
           Goes(next) == threads' = [threads EXCEPT ![t] = next] /\ UNCHANGED result
           \* line 78 to line 86 on the embedding taken
           Scores(emb) ==
                     IF Len(emb) # Len(call.query_embedding)
                     THEN Returned(t, [raised |-> "ValueError", ret |-> EmptyDict])
                     ELSE Goes([th EXCEPT !.at = "for", !.i = @ + 1,
                                   !.similarities =
                                       Append(@, <<th.i, Distance(call.query_embedding,
                                                                  emb)>>)])
           top_results == Slice(SortByDistance(th.similarities), call.n_results)
       IN  IF th.at = "empty"
           THEN IF vector_store.embeddings = <<>>
                THEN Returned(t, [raised |-> "None", ret |-> NoRecords])
                ELSE Goes([th EXCEPT !.at = "for"])
           ELSE IF th.at = "for"
           THEN IF th.i < Len(vector_store.embeddings)
                THEN LET emb == vector_store.embeddings[th.i + 1]
                     IN  IF Truthy(call.filter_dict)
                         THEN Goes([th EXCEPT !.at = "match", !.emb = emb])
                         ELSE Scores(emb)
                ELSE IF top_results = <<>>
                THEN Returned(t, [raised |-> "None", ret |-> NoRecords])
                ELSE Goes([th EXCEPT !.at = "return", !.top_results = top_results])
           ELSE IF th.i >= Len(vector_store.metadatas)
           THEN Returned(t, [raised |-> "IndexError", ret |-> EmptyDict])
           ELSE IF ~Match(vector_store.metadatas[th.i + 1], call.filter_dict)
           THEN Goes([th EXCEPT !.at = "for", !.i = @ + 1])
           ELSE Scores(th.emb)
    /\ UNCHANGED <<chunker, vector_store, retrieval_vector_store, llm_calls, round>>

\* Thread t reads the next element of the dict query returns: self.ids[i]
\* for each pair of top_results, then self.documents[i], then
\* self.metadatas[i]; an index out of range raises IndexError.
QueryReturn(t) ==
    /\ threads[t].pc = "query"
    /\ threads[t].at = "return"
    /\ LET th   == threads[t]
           list == vector_store[<<"ids", "documents", "metadatas">>[th.f]]
           i    == th.top_results[th.j][1]
           got  == [th.got EXCEPT ![th.f] = Append(@, list[i + 1])]
       IN  IF i >= Len(list)
           THEN Returned(t, [raised |-> "IndexError", ret |-> EmptyDict])
           ELSE IF th.j = Len(th.top_results) /\ th.f = 3
           THEN Returned(t, [raised |-> "None",
                             ret |-> [ids |-> got[1], documents |-> got[2],
                                      metadatas |-> got[3],
                                      distances |-> [j \in DOMAIN th.top_results |->
                                                        th.top_results[j][2]]]])
           ELSE /\ threads' = [threads EXCEPT ![t] =
                      IF th.j < Len(th.top_results)
                      THEN [th EXCEPT !.j = @ + 1, !.got = got]
                      ELSE [th EXCEPT !.f = @ + 1, !.j = 1, !.got = got]]
                /\ UNCHANGED result
    /\ UNCHANGED <<chunker, vector_store, retrieval_vector_store, llm_calls, round>>

\* The threads are joined: every call begun has returned or raised.
Join ==
    /\ \A t \in Threads : threads[t].pc \in {"idle", "done"}
    /\ \E t \in Threads : threads[t].pc = "done"
    /\ threads' = [t \in Threads |-> Idle]
    /\ round' = [NoRound EXCEPT !.joined = round.joined + 1]
    /\ result' = [op |-> "join", raised |-> "None", base |-> round.base,
                  calls |-> round.calls]
    /\ UNCHANGED <<chunker, vector_store, retrieval_vector_store, llm_calls>>

NextThreads ==
    \E t \in Threads :
        \/ BeginAdd(t)
        \/ AddStep(t)
        \/ BeginDelete(t)
        \/ Scan(t)
        \/ DeleteStep(t)
        \/ Read(t)
        \/ CountStep(t)
        \/ ListStep(t)
        \/ QueryStep(t)
        \/ QueryReturn(t)
        \/ Join

SpecThreads == Init /\ [][NextThreads]_vars

----------------------------------------------------------------------------
(* SpecRoundTrip: the round trip of test_vector_store_delete.  A fresh     *)
(* store is given the chunks of one document, counted, the document is     *)
(* deleted, and the store is counted again.  trip: the document and the    *)
(* number of pairs of the add under way, and how far the trip has come.    *)

\* The (chunk, embedding) pairs handed to add_documents.
Pairs == WellFormedChunks \X Vectors

\* store = VectorStore(); store.add_documents(chunks, embeddings, document_id, metadata)
RoundTripAdd ==
    \E pairs \in SeqUpTo(Pairs, MaxChunks), doc \in Documents :
        LET chunks     == [k \in DOMAIN pairs |-> pairs[k][1]]
            embeddings == [k \in DOMAIN pairs |-> pairs[k][2]]
            out == add_documents(EmptyStore, chunks, embeddings, doc[1], doc[2])
        IN  /\ vector_store = EmptyStore
            /\ vector_store' = out.store
            /\ result' = [op |-> "add_documents", raised |-> out.raised,
                          mismatch |-> FALSE,
                          trip |-> [document_id |-> doc[1], n |-> Len(pairs),
                                    stage |-> "added"]]
            /\ UNCHANGED <<chunker, retrieval_vector_store, llm_calls, threads, round>>

\* store.get_document_count(), at any point of the trip
RoundTripCount ==
    /\ "trip" \in DOMAIN result
    /\ result' = [op |-> "get_document_count", raised |-> "None",
                  ret |-> get_document_count(vector_store), trip |-> result.trip]
    /\ UNCHANGED <<chunker, vector_store, retrieval_vector_store, llm_calls, threads, round>>

\* store.delete_document(document_id), of the document the trip added
RoundTripDelete ==
    /\ "trip" \in DOMAIN result
    /\ result.trip.stage = "added"
    /\ LET out == delete_document(vector_store, result.trip.document_id)
       IN  /\ vector_store' = out.store
           /\ result' = [op |-> "delete_document", raised |-> out.raised,
                         document_id |-> result.trip.document_id, ret |-> None,
                         logged |-> Len(IndicesToRemove(vector_store.metadatas,
                                                        result.trip.document_id, 0)),
                         trip |-> [result.trip EXCEPT !.stage = "deleted"]]
    /\ UNCHANGED <<chunker, retrieval_vector_store, llm_calls, threads, round>>

NextRoundTrip == RoundTripAdd \/ RoundTripCount \/ RoundTripDelete

SpecRoundTrip == Init /\ [][NextRoundTrip]_vars

----------------------------------------------------------------------------
(* SpecDimension: a store given vectors of two and of three components.    *)

DimensionAdd ==
    AddDocumentsFrom({<<c>> : c \in WellFormedChunks},
                     {<<v>> : v \in UnitVectors \cup {<<1, 0, 0>>}})

DimensionDelete == DeleteDocumentFrom(DocumentIds)

DimensionQuery ==
    QueryFrom({<<1, 0>>, <<1, 0, 0>>}, {top_k_results}, {EmptyDict})

NextDimension == DimensionAdd \/ DimensionDelete \/ DimensionQuery

SpecDimension == Init /\ [][NextDimension]_vars

----------------------------------------------------------------------------
(* SpecIngest: the ingestion service with the document ids it generates.   *)

\* The hex digits of a uuid that ingest_pdf keeps: uuid.uuid4().hex[:12]
HexDigitsKept == 12

\* Values of uuid.uuid4().hex: 32 hex digits, of which 122 bits are random.
Uuid4Hex ==
    {"0123456789ab4cde8f0123456789abcd",
     "0123456789ab4fed9cba9876543210fe",
     "fedcba9876544321a0123456789abcde"}

\* document_id = f"doc-{uuid.uuid4().hex[:12]}"
GeneratedDocumentId(hex) == "doc-" \o SubSeq(hex, 1, HexDigitsKept)

\* ingestion_service.ingest_pdf(file_path, filename), the id drawn by uuid4.
IngestGenerated ==
    \E file \in Files, provider \in Providers, hex \in Uuid4Hex :
        \E out \in {ingest_pdf(vector_store, GeneratedDocumentId(hex), file,
                               "a.pdf", provider)} :
            /\ Len(out.store.ids) <= MaxRecords
            /\ vector_store' = out.store
            /\ result' = [op |-> "ingest_pdf", raised |-> out.raised, ret |-> out.ret,
                          document_id |-> GeneratedDocumentId(hex), hex |-> hex]
            /\ UNCHANGED <<chunker, retrieval_vector_store, llm_calls, threads, round>>

\* ingestion_service.delete_document(document_id) of a generated id
DeleteGenerated ==
    \E hex \in Uuid4Hex :
        LET out == service_delete_document(vector_store, GeneratedDocumentId(hex))
        IN  /\ vector_store' = out.store
            /\ result' = [op |-> "service_delete_document", raised |-> "None",
                          ret |-> out.ret,
                          document_id |-> GeneratedDocumentId(hex)]
            /\ UNCHANGED <<chunker, retrieval_vector_store, llm_calls, threads, round>>

NextIngest == IngestGenerated \/ DeleteGenerated

SpecIngest == Init /\ [][NextIngest]_vars

----------------------------------------------------------------------------
(* SpecChunker: a TextChunker is constructed, and pages are chunked with   *)
(* the chunker last constructed.                                           *)

\* Largest chunk_size and chunk_overlap a TextChunker is constructed with.
MaxChunkSize == 3
\* Largest number of characters of a page text.
MaxTextLen == 5

\* The characters of the page texts: a letter and those of the separators.
Chars == {"a", " ", "\n", "."}

\* The texts of n characters at most.
RECURSIVE Texts(_)
Texts(n) ==
    IF n = 0
    THEN {""}
    ELSE LET shorter == Texts(n - 1)
         IN  shorter \cup {text \o c : text \in {t \in shorter : Len(t) = n - 1},
                                       c \in Chars}

\* The pages given to chunk_pages: one page of any text, or up to MaxPages
\* pages of a few texts, numbered from 1.
PageTexts == {"a", " ", "a a", "aaaa"}
Pages ==
    {<<[page_number |-> 1, text |-> text]>> : text \in Texts(MaxTextLen)}
    \cup UNION {{[k \in 1..n |-> [page_number |-> k, text |-> texts[k]]] :
                    texts \in [1..n -> PageTexts]} : n \in 2..MaxPages}

\* chunker = TextChunker(chunk_size, chunk_overlap)
Construct ==
    \E size \in 0..MaxChunkSize, overlap \in 0..MaxChunkSize,
       validates_sign \in BOOLEAN :
        LET out == TextChunker(size, overlap, validates_sign)
        IN  /\ chunker' = IF out.raised = "None" THEN out.self ELSE chunker
            /\ result' = [op |-> "TextChunker", raised |-> out.raised,
                          chunk_size |-> size, chunk_overlap |-> overlap]
            /\ UNCHANGED <<vector_store, retrieval_vector_store, llm_calls,
                           threads, round>>

\* chunker.chunk_pages(pages).  The call leaves the chunker as it was, so
\* one call is followed after each construction.
ChunkPages ==
    /\ result.op # "chunk_pages"
    /\ \E pages \in Pages :
        \E out \in {chunk_pages(chunker, pages, FALSE)} :
            /\ result' = [op |-> "chunk_pages", raised |-> out.raised,
                          ret |-> out.chunks, pages |-> pages]
            /\ UNCHANGED <<chunker, vector_store, retrieval_vector_store,
                           llm_calls, threads, round>>

NextChunker == Construct \/ ChunkPages

SpecChunker == Init /\ [][NextChunker]_vars

----------------------------------------------------------------------------
(* SpecEmbed: generate_embeddings_batch called on lists of texts, with a   *)
(* provider that answers each request in input order or raises on one.     *)

\* Largest number of texts embedded in one call, and largest batch_size.
MaxTexts == 4
MaxBatchSize == 3

\* embedder.generate_embeddings_batch(texts, batch_size)
EmbedBatch ==
    \E texts \in SeqUpTo({"cat", "dog"}, MaxTexts), batch_size \in 1..MaxBatchSize,
       fails_at \in 0..MaxTexts :
        \E out \in {generate_embeddings_batch(texts, batch_size,
                       [splitter_raises |-> FALSE, fails_at |-> fails_at,
                        short_response |-> FALSE])} :
            /\ result' = [op |-> "generate_embeddings_batch", raised |-> out.raised,
                          ret |-> out.embeddings, calls |-> out.calls,
                          texts |-> texts, batch_size |-> batch_size,
                          fails_at |-> fails_at]
            /\ UNCHANGED <<chunker, vector_store, retrieval_vector_store,
                           llm_calls, threads, round>>

NextEmbed == EmbedBatch

SpecEmbed == Init /\ [][NextEmbed]_vars

----------------------------------------------------------------------------
(* SpecAnswer: a RetrievalService whose store holds chunks of up to more   *)
(* than 500 characters.                                                    *)

\* n times the text.
RECURSIVE Repeat(_, _)
Repeat(text, n) == IF n = 0 THEN "" ELSE text \o Repeat(text, n - 1)

\* Chunk texts of 3, 500 and 501 characters.
Text500 == Repeat("0123456789", 50)
LongTexts == {"cat", Text500, Text500 \o "x"}

\* retrieval_service.vector_store.add_documents of one chunk of document d1
LongAdd ==
    \E text \in LongTexts :
        LET chunk == [text         |-> text,
                      page_number  |-> 1,
                      chunk_index  |-> Len(retrieval_vector_store.ids),
                      chunk_length |-> Len(text)]
            out   == add_documents(retrieval_vector_store, <<chunk>>,
                                   <<Embedding(text)>>, "d1", EmptyDict)
        IN  /\ Len(retrieval_vector_store.ids) < MaxRecords
            /\ retrieval_vector_store' = out.store
            /\ result' = [op |-> "add_documents", raised |-> out.raised,
                          mismatch |-> FALSE]
            /\ UNCHANGED <<chunker, vector_store, llm_calls, threads, round>>

NextAnswer == LongAdd \/ Answer

SpecAnswer == Init /\ [][NextAnswer]_vars

----------------------------------------------------------------------------
(* SpecAlias: the caller of query writes into the result it was given.     *)
(* The metadatas of a result are the dict objects of the store             *)
(* ([self.metadatas[i] for i, _ in top_results]), not copies of them.      *)

\* results = store.query(...); results["metadatas"][k][key] = value, right
\* after the query: the dict written is the one the store holds at the
\* record's position.
ModifyResult ==
    /\ result.op = "query"
    /\ result.raised = "None"
    /\ \E k \in DOMAIN result.ret.metadatas :
       \E item \in {<<"page_number", 99>>, <<"document_id", "d9">>} :
           LET written == [result.ret.metadatas[k] EXCEPT ![item[1]] = item[2]]
           IN  /\ vector_store' =
                      [vector_store EXCEPT !.metadatas[result.positions[k] + 1] =
                                               written]
               /\ result' = [op      |-> "modify_result",
                             raised  |-> "None",
                             ret     |-> [result.ret EXCEPT !.metadatas[k] = written],
                             k       |-> k,
                             key     |-> item[1]]
    /\ UNCHANGED <<chunker, retrieval_vector_store, llm_calls, threads, round>>

NextAlias == FilterAdd \/ FilterDelete \/ QueryAll \/ ModifyResult

SpecAlias == Init /\ [][NextAlias]_vars

----------------------------------------------------------------------------
(* SpecAppend: add_documents and delete_document on one store, the         *)
(* arguments of each add_documents kept with its outcome.                  *)

\* store.add_documents(chunks, embeddings, document_id, metadata)
AppendAdd ==
    \E chunks \in SeqUpTo(Chunks, MaxChunks),
       embeddings \in SeqUpTo(UnitVectors, MaxChunks), doc \in Documents :
        LET out == add_documents(vector_store, chunks, embeddings, doc[1], doc[2])
        IN  /\ Len(vector_store.ids) + Len(chunks) <= MaxRecords
            /\ vector_store' = out.store
            /\ result' = [op |-> "add_documents", raised |-> out.raised,
                          mismatch |-> Len(chunks) # Len(embeddings),
                          chunks |-> chunks, embeddings |-> embeddings,
                          document_id |-> doc[1], metadata |-> doc[2]]
            /\ UNCHANGED <<chunker, retrieval_vector_store, llm_calls, threads, round>>

NextAppend == AppendAdd \/ DeleteDocument

SpecAppend == Init /\ [][NextAppend]_vars

----------------------------------------------------------------------------
(* SpecTimeout: one ingest_pdf or answer call at a time, request by        *)
(* request to the provider, each under the timeout its caller gave.  The   *)
(* provider answers a request or stays silent.                             *)

\* The timeout argument left out.
NotGiven == [type |-> "NotGiven"]

\* self.client of EmbeddingGenerator: OpenAI(api_key=...), no timeout given.
EmbeddingClient == [library |-> "openai", timeout |-> NotGiven]

\* self.client of LLMClient, by settings.llm_provider: OpenAI(api_key=...) or
\* Anthropic(api_key=...), no timeout given to either.
LLMClient(llm_provider) ==
    IF llm_provider = "openai"
    THEN [library |-> "openai", timeout |-> NotGiven]
    ELSE [library |-> "anthropic", timeout |-> NotGiven]

\* The request a client sends: embeddings.create, chat.completions.create
\* and messages.create are called without a timeout, so the client's applies.
Request(client, method) == [method |-> method, timeout |-> client.timeout]

\* A provider that answers every request.
Answering == [splitter_raises |-> FALSE, fails_at |-> 0, short_response |-> FALSE]

\* The request handler is thread 1.
Handler == 1
Pending ==
    threads[Handler].pc \in {"embeddings.create", "chat.completions.create",
                             "messages.create"}

\* The number of requests for embeddings that ingesting the file takes.
RequestsOf(file) ==
    IF file.raised # "None" THEN 0
    ELSE Len(SelectSeq(ingest_pdf(EmptyStore, "d1", file, "a.pdf", Answering).calls,
                       LAMBDA call : call = "embeddings.create"))

\* The files ingested: one process_pdf raises on, a PDF without text, and
\* PDFs of one to MaxPages chunks, which go to the provider in one request
\* (up to default_batch_size chunks do).
TimeoutFiles ==
    {file \in Files : file.raised # "None"
                      \/ \E n \in 0..MaxPages : file = [raised |-> "None",
                                                        pdf_data |-> PdfData(1..n)]}

\* ingest_pdf is called and makes no request for embeddings: process_pdf
\* raises, or no page gives a chunk.
IngestWithoutRequest ==
    /\ threads[Handler].pc = "idle"
    /\ \E file \in TimeoutFiles, document_id \in DocumentIds \ list_documents(vector_store) :
        \E out \in {ingest_pdf(vector_store, document_id, file, "a.pdf", Answering)} :
            /\ RequestsOf(file) = 0
            /\ vector_store' = out.store
            /\ result' = [op |-> "ingest_pdf", raised |-> out.raised,
                          ret |-> out.ret, document_id |-> document_id]
    /\ UNCHANGED <<chunker, retrieval_vector_store, llm_calls, threads, round>>

\* ingest_pdf is called: it runs to its first request for embeddings.
BeginIngest ==
    /\ threads[Handler].pc = "idle"
    /\ \E file \in TimeoutFiles, document_id \in DocumentIds \ list_documents(vector_store) :
            /\ RequestsOf(file) > 0
            /\ Len(vector_store.ids) + Len(file.pdf_data.pages) <= MaxRecords
            /\ threads' = [threads EXCEPT ![Handler] =
                   [pc |-> "embeddings.create", op |-> "ingest_pdf",
                    file |-> file, document_id |-> document_id, request |-> 1,
                    timeout |-> Request(EmbeddingClient, "embeddings.create").timeout]]
    /\ UNCHANGED <<chunker, vector_store, retrieval_vector_store, result,
                   llm_calls, round>>

\* answer is called, in a process configured with llm_provider: it runs to
\* the request for the question's embedding.
BeginAnswer ==
    /\ threads[Handler].pc = "idle"
    /\ \E question \in {"cat", "dog"}, llm_provider \in {"openai", "anthropic"} :
          threads' = [threads EXCEPT ![Handler] =
              [pc |-> "embeddings.create", op |-> "answer", question |-> question,
               llm_provider |-> llm_provider,
               timeout |-> Request(EmbeddingClient, "embeddings.create").timeout]]
    /\ UNCHANGED <<chunker, vector_store, retrieval_vector_store, result,
                   llm_calls, round>>

\* The provider answers the last request of an ingest_pdf: the chunks are
\* stored and the call returns.
RespondIngest ==
    /\ Pending
    /\ threads[Handler].op = "ingest_pdf"
    /\ threads[Handler].request = RequestsOf(threads[Handler].file)
    /\ \E out \in {ingest_pdf(vector_store, threads[Handler].document_id,
                                threads[Handler].file, "a.pdf", Answering)} :
           /\ vector_store' = out.store
           /\ result' = [op |-> "ingest_pdf", raised |-> out.raised,
                         ret |-> out.ret,
                         document_id |-> threads[Handler].document_id]
    /\ threads' = [threads EXCEPT ![Handler] = Idle]
    /\ UNCHANGED <<chunker, retrieval_vector_store, llm_calls, round>>

\* The provider answers the request an answer waits for: after the embedding
\* the store is queried and, when it returned documents, generation is
\* requested; after the generation the answer is returned.
RespondAnswer ==
    LET th  == threads[Handler]
        generation == IF th.llm_provider = "openai"
                      THEN Request(LLMClient(th.llm_provider), "chat.completions.create")
                      ELSE Request(LLMClient(th.llm_provider), "messages.create")
        llm == [raised |-> "None",
                response |-> [response |-> "According to Chunk 1",
                              model |-> "gpt-3.5-turbo",
                              usage |-> [total_tokens |-> 7]]]
        out == retrieval_query(retrieval_vector_store, th.question, top_k_results,
                               "", FALSE, llm)
        answered ==
            /\ result' = [op |-> "answer", raised |-> out.raised, ret |-> out.ret,
                          question |-> th.question]
            /\ threads' = [threads EXCEPT ![Handler] = Idle]
    IN  /\ Pending
        /\ th.op = "answer"
        /\ IF th.pc = "embeddings.create" /\ out.generated > 0
           THEN /\ llm_calls < MaxLlmCalls
                /\ llm_calls' = llm_calls + 1
                /\ threads' = [threads EXCEPT ![Handler].pc = generation.method,
                                              ![Handler].timeout = generation.timeout]
                /\ UNCHANGED result
           ELSE answered /\ UNCHANGED llm_calls
        /\ UNCHANGED <<chunker, vector_store, retrieval_vector_store, round>>

\* A caller puts a first record into the retrieval service's store.
FillRetrievalStore == retrieval_vector_store = EmptyStore /\ RetrievalAdd

NextTimeout ==
    \/ IngestWithoutRequest
    \/ BeginIngest
    \/ BeginAnswer
    \/ RespondIngest
    \/ RespondAnswer
    \/ FillRetrievalStore

SpecTimeout == Init /\ [][NextTimeout]_vars

----------------------------------------------------------------------------
(* SpecRoutes: documents are ingested and deleted through the ingestion    *)
(* service, and GET /documents/{document_id} is requested.                 *)

\* get_document_info(document_id): the DocumentInfo it builds; the fields it
\* does not give keep their default, None.
get_document_info(document_id) ==
    [raised |-> "None",
     ret    |-> [document_id      |-> document_id,
                 filename         |-> "Document details not implemented",
                 num_pages        |-> 0,
                 num_chunks       |-> 0,
                 upload_timestamp |-> None,
                 title            |-> None,
                 author           |-> None]]

\* GET /documents/{document_id}
GetDocumentInfo ==
    \E document_id \in DocumentIds :
        LET out == get_document_info(document_id)
        IN  /\ result' = [op |-> "get_document_info", raised |-> out.raised,
                          ret |-> out.ret, document_id |-> document_id]
            /\ UNCHANGED <<chunker, vector_store, retrieval_vector_store,
                           llm_calls, threads, round>>

NextRoutes == IngestPdf \/ ServiceDeleteDocument \/ GetDocumentInfo

SpecRoutes == Init /\ [][NextRoutes]_vars

-----------------------------------------------------------------------------
(* SpecInterleave: chunks of two documents are added in any order, and a   *)
(* document is deleted from the store they have built.                     *)

\* store.delete_document(document_id), with the store of before the call
InterleaveDelete ==
    /\ vector_store # EmptyStore
    /\ \E document_id \in DocumentIds :
        LET out == delete_document(vector_store, document_id)
        IN  /\ vector_store' = out.store
            /\ result' = [op |-> "delete_document", raised |-> out.raised,
                          document_id |-> document_id, ret |-> None,
                          before |-> vector_store]
            /\ UNCHANGED <<chunker, retrieval_vector_store, llm_calls, threads, round>>

NextInterleave == AddDocuments \/ InterleaveDelete

SpecInterleave == Init /\ [][NextInterleave]_vars

----------------------------------------------------------------------------
(* SpecBatches: ingest_pdf followed call by call, through the loop of      *)
(* chunk_pages, the requests of generate_embeddings_batch and the appends  *)
(* of add_documents, on files up to a PDF whose chunks take MaxBatches     *)
(* requests for embeddings.                                                *)

\* A PDF with one page of text more than MaxBatches - 1 requests embed.
LargeFile ==
    LET n == default_batch_size * (MaxBatches - 1) + 1
    IN  [raised |-> "None",
         pdf_data |-> [pages    |-> [k \in 1..n |->
                                       [page_number |-> k, text |-> PageText(k)]],
                       metadata |-> [title |-> "Unknown", author |-> "Unknown",
                                     num_pages |-> n,
                                     extraction_method |-> "pypdf"]]]

\* ingest_pdf of frame fr ends: it returns ret, or logs and raises again.
IngestEnded(fr, raised, ret) ==
    /\ threads' = [threads EXCEPT ![Handler] = Idle]
    /\ result' = [op |-> "ingest_pdf", raised |-> raised, ret |-> ret,
                  document_id |-> fr.document_id, file |-> fr.file,
                  provider |-> fr.provider, before |-> fr.before,
                  requests |-> fr.calls, chunks |-> Len(fr.all_chunks)]

\* ingest_pdf is called: the id is made and process_pdf returns or raises.
StartIngest ==
    /\ threads[Handler] = Idle
    /\ \E file \in Files \cup {LargeFile}, provider \in Providers,
          document_id \in DocumentIds \ list_documents(vector_store) :
          LET fr == [pc |-> "chunk_pages", document_id |-> document_id,
                     file |-> file, provider |-> provider, before |-> vector_store,
                     p |-> 1, all_chunks |-> <<>>, global_chunk_index |-> 0,
                     i |-> 0, all_embeddings |-> <<>>, calls |-> 0, k |-> 0]
          IN  IF file.raised # "None"
              THEN IngestEnded(fr, file.raised, EmptyDict)
              ELSE /\ threads' = [threads EXCEPT ![Handler] = fr]
                   /\ result' = [op |-> "begin", raised |-> "None"]
    /\ UNCHANGED <<chunker, vector_store, retrieval_vector_store, llm_calls, round>>

\* chunk_pages takes the next page: its text is split and its chunk dicts
\* are gathered; after the last page the chunks are returned.
ChunkPage ==
    /\ threads[Handler].pc = "chunk_pages"
    /\ LET fr    == threads[Handler]
           pages == fr.file.pdf_data.pages
           new   == PageChunks(pages[fr.p], split_text(IngestionChunker, pages[fr.p].text),
                               fr.global_chunk_index)
       IN  IF fr.provider.splitter_raises /\ pages # <<>>
           THEN IngestEnded(fr, "Exception", EmptyDict)
           ELSE /\ threads' = [threads EXCEPT ![Handler] =
                      IF fr.p > Len(pages)
                      THEN [fr EXCEPT !.pc = "generate_embeddings_batch"]
                      ELSE [fr EXCEPT !.p = @ + 1,
                                      !.all_chunks = @ \o new,
                                      !.global_chunk_index = @ + Len(new)]]
                /\ UNCHANGED result
    /\ UNCHANGED <<chunker, vector_store, retrieval_vector_store, llm_calls, round>>

\* Mutant of EmbedRequest: the chunks of a batch are stored as soon as their
\* embeddings arrive.
EmbedRequest_storing_the_batch(self, fr) ==
    LET batch == SliceFrom(fr.all_chunks, fr.i, fr.i + default_batch_size)
        data  == [k \in DOMAIN batch |-> Embedding(batch[k].text)]
    IN  IF fr.i >= Len(fr.all_chunks)
        THEN [store |-> self, raised |-> "None",
              frame |-> [fr EXCEPT !.pc = "add_documents"]]
        ELSE IF fr.provider.fails_at = fr.calls + 1
        THEN [store |-> self, raised |-> "APIError",
              frame |-> [fr EXCEPT !.calls = @ + 1]]
        ELSE [store |-> add_documents(self, batch, data, fr.document_id,
                                      EmptyDict).store,
              raised |-> "None",
              frame |-> [fr EXCEPT !.i = @ + default_batch_size,
                                   !.all_embeddings = @ \o data,
                                   !.calls = @ + 1]]

\* One turn of the loop of generate_embeddings_batch on the texts of the
\* chunks: the request for the batch at i is answered or raises; past the
\* last batch the embeddings are returned to ingest_pdf, which has not
\* touched the store (self).
EmbedRequest(self, fr) ==
    LET texts == [k \in DOMAIN fr.all_chunks |-> fr.all_chunks[k].text]
        batch == SliceFrom(texts, fr.i, fr.i + default_batch_size)
        data  == [k \in DOMAIN batch |-> Embedding(batch[k])]
        batch_embeddings ==
            IF fr.provider.short_response /\ fr.i + default_batch_size >= Len(texts)
            THEN SubSeq(data, 1, Len(data) - 1)
            ELSE data
    IN  IF fr.i >= Len(texts)
        THEN [store |-> self, raised |-> "None",
              frame |-> [fr EXCEPT !.pc = "add_documents"]]
        ELSE IF fr.provider.fails_at = fr.calls + 1
        THEN [store |-> self, raised |-> "APIError",
              frame |-> [fr EXCEPT !.calls = @ + 1]]
        ELSE [store |-> self, raised |-> "None",
              frame |-> [fr EXCEPT !.i = @ + default_batch_size,
                                   !.all_embeddings = @ \o batch_embeddings,
                                   !.calls = @ + 1]]

\* generate_embeddings_batch makes its next request, or returns.
EmbedNext ==
    /\ threads[Handler].pc = "generate_embeddings_batch"
    /\ \E out \in {EmbedRequest(vector_store, threads[Handler])} :
          /\ vector_store' = out.store
          /\ IF out.raised # "None"
             THEN IngestEnded(out.frame, out.raised, EmptyDict)
             ELSE /\ threads' = [threads EXCEPT ![Handler] = out.frame]
                  /\ UNCHANGED result
    /\ UNCHANGED <<chunker, retrieval_vector_store, llm_calls, round>>

\* add_documents, called by ingest_pdf with the chunks, the embeddings and
\* the metadata of the file: the check of the two counts (k = 0), then one
\* (chunk, embedding) pair of the loop, then the return of ingest_pdf.
AddChunk ==
    /\ threads[Handler].pc = "add_documents"
    /\ LET fr        == threads[Handler]
           pdf_data  == fr.file.pdf_data
           num_pages == pdf_data.metadata.num_pages
           metadata  == [filename  |-> "a.pdf",
                         title     |-> Get(pdf_data.metadata, "title", "Unknown"),
                         author    |-> Get(pdf_data.metadata, "author", "Unknown"),
                         num_pages |-> num_pages]
           one       == AddOne(vector_store, fr.all_chunks[fr.k],
                               fr.all_embeddings[fr.k], fr.document_id, metadata)
           Goes(next) == threads' = [threads EXCEPT ![Handler] = next]
                         /\ UNCHANGED result
       IN  IF fr.k = 0
           THEN /\ IF Len(fr.all_chunks) # Len(fr.all_embeddings)
                   THEN IngestEnded(fr, "ValueError", EmptyDict)
                   ELSE Goes([fr EXCEPT !.k = 1])
                /\ UNCHANGED vector_store
           ELSE IF fr.k > Len(fr.all_chunks)
           THEN /\ IngestEnded(fr, "None",
                               [document_id |-> fr.document_id,
                                filename    |-> "a.pdf",
                                num_pages   |-> num_pages,
                                num_chunks  |-> Len(fr.all_chunks),
                                metadata    |-> metadata])
                /\ UNCHANGED vector_store
           ELSE /\ vector_store' = one.store
                /\ IF one.raised # "None"
                   THEN IngestEnded(fr, one.raised, EmptyDict)
                   ELSE Goes([fr EXCEPT !.k = @ + 1])
    /\ UNCHANGED <<chunker, retrieval_vector_store, llm_calls, round>>

NextBatches == StartIngest \/ ChunkPage \/ EmbedNext \/ AddChunk

SpecBatches == Init /\ [][NextBatches]_vars

----------------------------------------------------------------------------
(* Properties of one VectorStore (Spec).                                   *)

\* The records of a store: the positions at which all four lists have an
\* entry, as (id, text, embedding, metadata).
MinLen(S) ==
    LET lens == {Len(S.ids), Len(S.documents), Len(S.embeddings), Len(S.metadatas)}
    IN  CHOOSE n \in lens : \A m \in lens : n <= m
Records(S) ==
    [i \in 1..MinLen(S) |->
        <<S.ids[i], S.documents[i], S.embeddings[i], S.metadatas[i]>>]

\* How many positions of a list of records hold r.
Count(recs, r) == Cardinality({i \in DOMAIN recs : recs[i] = r})

\* C2: a delete_document(D) step leaves no metadata with document_id D in the
\* store, and every record of another document is present afterwards as often
\* as before, with the same id, text, embedding and metadata.
C2_DeleteRemovesExactlyTheDocument ==
    [][result'.op = "delete_document" =>
        /\ \A i \in DOMAIN vector_store'.metadatas :
              vector_store'.metadatas[i].document_id # result'.document_id
        /\ \A r \in Range(Records(vector_store)) \cup Range(Records(vector_store')) :
              r[4].document_id # result'.document_id =>
                 Count(Records(vector_store'), r) = Count(Records(vector_store), r)
      ]_vars

\* C2 witness: a delete that removed two records and left another document's.
C2_Witness ==
    /\ result.op = "delete_document"
    /\ result.logged = 2
    /\ result.raised = "None"
    /\ Len(vector_store.metadatas) = 1
    /\ vector_store.metadatas[1].document_id # result.document_id

\* C3: ids, documents, embeddings and metadatas have equal length in every
\* reachable state.
C3_EqualLengths ==
    /\ Len(vector_store.ids) = Len(vector_store.documents)
    /\ Len(vector_store.documents) = Len(vector_store.embeddings)
    /\ Len(vector_store.embeddings) = Len(vector_store.metadatas)

\* C4: add_documents with a number of chunks different from the number of
\* embeddings fails with DimensionMismatchError and leaves the store as it
\* was.
C4_MismatchRaisesDimensionMismatchError ==
    [][(result'.op = "add_documents" /\ result'.mismatch) =>
        (result'.raised = "DimensionMismatchError" /\ vector_store' = vector_store)]_vars

----------------------------------------------------------------------------
(* Properties of query (SpecFilter, SpecRank).                             *)

\* C8: every record a filtered query returns has metadata equal to the filter
\* on every (key, value) pair of the filter.
C8_FilterCorrect ==
    (result.op = "query" /\ result.raised = "None") =>
        \A j \in DOMAIN result.ret.metadatas :
            \A k \in DOMAIN result.filter_dict :
                /\ k \in DOMAIN result.ret.metadatas[j]
                /\ result.ret.metadatas[j][k] = result.filter_dict[k]

\* C8 witness: a query under a two-key filter returned a record while the
\* store held a record of the same document on another page and a record of
\* another document.
C8_Witness ==
    /\ result.op = "query"
    /\ result.raised = "None"
    /\ DOMAIN result.filter_dict = {"document_id", "page_number"}
    /\ Len(result.ret.ids) >= 1
    /\ \E i \in DOMAIN vector_store.metadatas :
          /\ vector_store.metadatas[i].document_id = result.filter_dict.document_id
          /\ vector_store.metadatas[i].page_number # result.filter_dict.page_number
    /\ \E i \in DOMAIN vector_store.metadatas :
          vector_store.metadatas[i].document_id # result.filter_dict.document_id

\* The stored indices (0-based) of the records that pass a filter.
Passing(S, filter_dict) ==
    {i \in 0..(Len(S.metadatas) - 1) :
        ~Truthy(filter_dict) \/ Match(S.metadatas[i + 1], filter_dict)}

\* What C9 says of the result of a query in the state it was made in.
RankedByDistance ==
    LET d       == result.ret.distances
        pos     == result.positions
        passing == Passing(vector_store, result.filter_dict)
        k       == Cardinality(passing)
    IN  /\ Len(d) = (IF result.n_results < k THEN result.n_results ELSE k)
        /\ \A i, j \in DOMAIN d : i < j => ~Lt(d[j], d[i])
        /\ \A i, j \in DOMAIN d :
              (i < j /\ ~d[i].nan /\ ~d[j].nan /\ d[i].v = d[j].v) => pos[i] < pos[j]
        /\ \A e \in passing \ Range(pos) : \A j \in DOMAIN d :
              ~Lt(Distance(result.query_embedding, vector_store.embeddings[e + 1]), d[j])

\* C9: query returns the records that pass the filter in ascending order of
\* distance, equal distances in insertion order, cut to the first n_results:
\* min(n_results, number passing) entries, and no record left out is strictly
\* nearer than one returned.
C9_RankedByDistance ==
    (result.op = "query" /\ result.raised = "None") => RankedByDistance

\* The same, for the queries in which every distance is defined: neither the
\* query vector nor a stored vector is the zero vector.
RankedWhenDistancesDefined ==
    (/\ result.op = "query"
     /\ result.raised = "None"
     /\ Norm(result.query_embedding) # 0
     /\ \A i \in DOMAIN vector_store.embeddings : Norm(vector_store.embeddings[i]) # 0)
    => RankedByDistance

----------------------------------------------------------------------------
(* Properties of the services (SpecServices, SpecRetrieval).               *)

\* C1: ingestion and query work on one store: an answer() without document
\* filter, made while the ingestion service's store holds the records of a
\* successfully ingested document, returns at least one source.
C1_AnswerSeesIngestedDocument ==
    (/\ result.op = "answer"
     /\ result.raised = "None"
     /\ result.document_id = ""
     /\ get_document_count(vector_store) > 0)
    => Len(result.ret.sources) >= 1

\* The number of requests generate_embeddings_batch makes for n texts.
Batches(n) == (n + default_batch_size - 1) \div default_batch_size

\* C5: an ingest_pdf that failed, at whichever call, has left the store as it
\* was when it began; until add_documents is called the store is as it was;
\* and add_documents is called only after every batch of the document's
\* chunks was sent to the provider and every request was answered.
C5_FailedIngestLeavesStoreUnchanged ==
    LET fr == threads[Handler]
    IN  /\ (result.op = "ingest_pdf" /\ result.raised # "None")
              => vector_store = result.before
        /\ fr.pc \in {"chunk_pages", "generate_embeddings_batch"}
              => vector_store = fr.before
        /\ fr.pc = "add_documents"
              => /\ fr.p = Len(fr.file.pdf_data.pages) + 1
                 /\ fr.calls = Batches(Len(fr.all_chunks))
                 /\ fr.k <= 1 => vector_store = fr.before

\* C5 witness: an ingestion of more chunks than one request embeds failed on
\* its second request, the first one answered, with records of another
\* document in the store.
C5_Witness ==
    /\ result.op = "ingest_pdf"
    /\ result.raised = "APIError"
    /\ result.requests = 2
    /\ result.chunks > default_batch_size
    /\ get_document_count(vector_store) > 0

\* C10: an answer() step whose store query returns no record returns the
\* fixed answer with no sources and no document ids, and leaves the number of
\* generate_response invocations as it was.
C10_NoDocumentsNoGeneration ==
    [][(result'.op = "answer" /\ result'.retrieved = 0) =>
        /\ result'.raised = "None"
        /\ result'.ret.answer =
              "I couldn't find any relevant information to answer your question."
        /\ result'.ret.sources = <<>>
        /\ result'.ret.document_ids = {}
        /\ llm_calls' = llm_calls
      ]_vars

\* C10 witness: an answer() under a document filter that no record of a
\* filled store matches, made after an answer() that did generate.
C10_Witness ==
    /\ result.op = "answer"
    /\ result.retrieved = 0
    /\ result.document_id # ""
    /\ get_document_count(retrieval_vector_store) > 0
    /\ llm_calls > 0
    /\ result.ret.sources = <<>>

----------------------------------------------------------------------------
(* Properties of a store called from threads (SpecThreads).                *)

\* Two outcomes of a reading call are the same.
SameOutcome(x, y) ==
    /\ x.raised = y.raised
    /\ x.raised = "None" => x.ret = y.ret

\* C6: a query, get_document_count or list_documents that runs while the
\* other thread is inside add_documents or delete_document returns (or
\* raises) what it does on the store before that write or on the store after
\* it.
C6_ReadersSeeNoIntermediateState ==
    (result.op \in {"get_document_count", "list_documents", "query"}
     /\ result.concurrent)
    => \/ SameOutcome(result, ReadValue(result.before, result.call))
       \/ SameOutcome(result, ReadValue(result.after, result.call))

\* C7: when the threads are joined after a round in which both made a
\* writing call, the store is what the two calls make of the round's first
\* store when run one after the other, in one of the two orders.
C7_WritersAreSerialized ==
    (result.op = "join" /\ \A t \in Threads : result.calls[t].op \in WriteOps)
    => \/ vector_store = Written(Written(result.base, result.calls[1]), result.calls[2])
       \/ vector_store = Written(Written(result.base, result.calls[2]), result.calls[1])

----------------------------------------------------------------------------
(* Properties of the round trip (SpecRoundTrip).                           *)

\* C11: counted after add_documents of N pairs into an empty store,
\* get_document_count returns N; counted after the delete_document of their
\* document id, it returns 0.
C11_CountRoundTrip ==
    (result.op = "get_document_count" /\ "trip" \in DOMAIN result) =>
        /\ result.trip.stage = "added" => result.ret = result.trip.n
        /\ result.trip.stage = "deleted" => result.ret = 0

\* C11 witness: a count of 0 after the delete of a document of two pairs.
C11_Witness ==
    /\ result.op = "get_document_count"
    /\ "trip" \in DOMAIN result
    /\ result.trip.stage = "deleted"
    /\ result.trip.n = 2
    /\ result.ret = 0

----------------------------------------------------------------------------
(* Further properties of one VectorStore (Spec).                           *)

\* C12: delete_document returns the number of records it removed; when no
\* record has the document id it returns 0, does not raise and leaves the
\* store as it was.
C12_DeleteReturnsCount ==
    [][result'.op = "delete_document" =>
        /\ result'.ret = PyInt(Len(vector_store.metadatas) - Len(vector_store'.metadatas))
        /\ result'.document_id \notin list_documents(vector_store) =>
              /\ result'.ret = PyInt(0)
              /\ result'.raised = "None"
              /\ vector_store' = vector_store
      ]_vars

\* C13: the ids of the stored records are pairwise distinct in every
\* reachable state (an add_documents that would store an id a second time
\* fails instead).
C13_UniqueIds ==
    \A i, j \in DOMAIN vector_store.ids :
        i # j => vector_store.ids[i] # vector_store.ids[j]

----------------------------------------------------------------------------
(* Properties of the stored vectors (SpecDimension, SpecRank).             *)

\* C14: in every reachable state all stored embedding vectors have the same
\* length (an add_documents with a vector of another length fails and stores
\* nothing).
C14_OneDimension ==
    \A i, j \in DOMAIN vector_store.embeddings :
        Len(vector_store.embeddings[i]) = Len(vector_store.embeddings[j])

\* C15: a query in which the query vector or a stored vector is the zero
\* vector does not raise, and ranks undefined (nan) distances as the largest:
\* no returned nan distance comes before a defined one, the defined ones
\* ascend, and no record of defined distance is left out while one of
\* undefined distance is returned.
C15_UndefinedDistancesLast ==
    (/\ result.op = "query"
     /\ \/ Norm(result.query_embedding) = 0
        \/ \E i \in DOMAIN vector_store.embeddings :
              Norm(vector_store.embeddings[i]) = 0)
    => /\ result.raised = "None"
       /\ LET d   == result.ret.distances
              pos == result.positions
          IN  /\ \A i, j \in DOMAIN d : (i < j /\ d[i].nan) => d[j].nan
              /\ \A i, j \in DOMAIN d :
                    (i < j /\ ~d[i].nan /\ ~d[j].nan) => d[i].v <= d[j].v
              /\ \A e \in Passing(vector_store, result.filter_dict) \ Range(pos) :
                    ~Distance(result.query_embedding, vector_store.embeddings[e + 1]).nan
                       => \A j \in DOMAIN d : ~d[j].nan

----------------------------------------------------------------------------
(* Further properties of query (SpecFilter).                               *)

\* C16: a query of a store that holds no record (its count is 0) raises
\* nothing and returns empty ids, documents, metadatas and distances,
\* whatever the query vector, n_results and the filter.
C16_EmptyStoreEmptyResult ==
    (result.op = "query" /\ get_document_count(vector_store) = 0) =>
        /\ result.raised = "None"
        /\ result.ret = [ids |-> <<>>, documents |-> <<>>, metadatas |-> <<>>,
                         distances |-> <<>>]

\* C16 witness: an empty store queried with the zero vector under a two-key
\* filter for MaxResults results.
C16_Witness ==
    /\ result.op = "query"
    /\ vector_store = EmptyStore
    /\ result.query_embedding = <<0, 0>>
    /\ result.n_results = MaxResults
    /\ DOMAIN result.filter_dict = {"document_id", "page_number"}
    /\ result.ret.ids = <<>>

----------------------------------------------------------------------------
(* Properties of the generated document ids (SpecIngest).                  *)

\* C17: the document_id of an ingestion, successful or failed, is one no
\* earlier ingestion used: it is not the id of the ingestion right before it,
\* and not the id of a document an earlier ingestion stored.
C17_GeneratedIdsDistinct ==
    [][result'.op = "ingest_pdf" =>
        /\ result.op = "ingest_pdf" => result'.document_id # result.document_id
        /\ result'.document_id \notin list_documents(vector_store)
      ]_vars

----------------------------------------------------------------------------
(* Properties of the chunker (SpecChunker).                                *)

\* C18: in the chunks of one chunk_pages call chunk_index grows strictly in
\* output order, across page boundaries too (so no two chunks share one),
\* and local_chunk_index is 0 on the first chunk of each page.
C18_ChunkIndexGlobal ==
    result.op = "chunk_pages" =>
        LET chunks == result.ret
        IN  /\ \A i, j \in DOMAIN chunks :
                  i < j => chunks[i].chunk_index < chunks[j].chunk_index
            /\ \A k \in DOMAIN chunks :
                  (k = 1 \/ chunks[k - 1].page_number # chunks[k].page_number)
                      => chunks[k].local_chunk_index = 0

\* C18 witness: two pages of two chunks each; the third chunk is the first
\* of page 2, with local_chunk_index 0 and chunk_index 2.
C18_Witness ==
    /\ result.op = "chunk_pages"
    /\ Len(result.ret) = 4
    /\ result.ret[2].page_number = 1
    /\ result.ret[2].local_chunk_index = 1
    /\ result.ret[3].page_number = 2
    /\ result.ret[3].local_chunk_index = 0
    /\ result.ret[3].chunk_index = 2
    /\ result.ret[4].chunk_index = 3

\* A text no separator divides: the separators end with the empty one, which
\* divides between any two characters.
Indivisible(text) == Len(text) <= 1

\* C19: with chunk_size > chunk_overlap > 0, every chunk of chunk_pages is
\* chunk_size characters long at most, unless it is one indivisible token.
C19_ChunksWithinSize ==
    (/\ result.op = "chunk_pages"
     /\ chunker.chunk_size > chunker.chunk_overlap
     /\ chunker.chunk_overlap > 0) =>
        \A k \in DOMAIN result.ret :
            \/ Len(result.ret[k].text) <= chunker.chunk_size
            \/ Indivisible(result.ret[k].text)

\* C19 witness: a page longer than chunk_size, holding separators, comes out
\* as several chunks, one of them of chunk_size characters exactly.
C19_Witness ==
    /\ result.op = "chunk_pages"
    /\ chunker.chunk_size > chunker.chunk_overlap
    /\ chunker.chunk_overlap > 0
    /\ Len(result.pages) = 1
    /\ Len(result.pages[1].text) > chunker.chunk_size
    /\ Search(result.pages[1].text, ". ")
    /\ Len(result.ret) >= 2
    /\ \E k \in DOMAIN result.ret : Len(result.ret[k].text) = chunker.chunk_size

\* The configurations the chunker is to refuse.
InvalidConfiguration(size, overlap) == overlap >= size \/ size <= 0 \/ overlap <= 0

\* C20: a TextChunker of chunk_overlap >= chunk_size, chunk_size <= 0 or
\* chunk_overlap <= 0 fails with ConfigurationError, when it is constructed
\* or else when it is used, and gives no chunks.
C20_InvalidConfigurationFails ==
    /\ (/\ result.op = "TextChunker"
        /\ InvalidConfiguration(result.chunk_size, result.chunk_overlap))
           => result.raised \in {"ConfigurationError", "None"}
    /\ (/\ result.op = "chunk_pages"
        /\ InvalidConfiguration(chunker.chunk_size, chunker.chunk_overlap))
           => result.raised = "ConfigurationError" /\ result.ret = <<>>

----------------------------------------------------------------------------
(* Properties of generate_embeddings_batch (SpecEmbed).                    *)

\* Number of requests that embedding n texts in batches of batch_size takes.
Requests(n, batch_size) == (n + batch_size - 1) \div batch_size

\* C21: generate_embeddings_batch over N texts returns N vectors, the i-th
\* the embedding of the i-th text, whatever the batch size; when the provider
\* raises on one of the requests the call raises and returns no vector.
C21_BatchesInInputOrder ==
    result.op = "generate_embeddings_batch" =>
        IF result.fails_at \in 1..Requests(Len(result.texts), result.batch_size)
        THEN result.raised # "None" /\ result.ret = <<>>
        ELSE /\ result.raised = "None"
             /\ Len(result.ret) = Len(result.texts)
             /\ \A i \in DOMAIN result.texts :
                   result.ret[i] = Embedding(result.texts[i])

\* C21 witness: four texts embedded in two requests of two and returned in
\* input order.
C21_Witness ==
    /\ result.op = "generate_embeddings_batch"
    /\ result.raised = "None"
    /\ result.texts = <<"cat", "dog", "dog", "cat">>
    /\ result.batch_size = 2
    /\ result.calls = 2
    /\ result.ret = <<<<1, 0>>, <<0, 1>>, <<0, 1>>, <<1, 0>>>>

----------------------------------------------------------------------------
(* Properties of the answer's sources (SpecAnswer).                        *)

\* The positions in the store of the chunks retrieved for the last answer.
RetrievedPositions ==
    Retrieved(retrieval_vector_store, result.question, result.top_k,
              result.document_id, FALSE).positions

\* C22: the texts given to generation are the stored texts of the retrieved
\* chunks, whole and in the order retrieved; each source of the answer shows
\* the text itself when it has 500 characters at most, and its first 500
\* characters followed by "..." otherwise.
C22_FullTextsSentPreviewsShown ==
    (result.op = "answer" /\ result.generated > 0) =>
        LET positions == RetrievedPositions
            stored(i) == retrieval_vector_store.documents[positions[i] + 1]
        IN  /\ Len(result.context_chunks) = Len(positions)
            /\ \A i \in DOMAIN positions : result.context_chunks[i] = stored(i)
            /\ result.raised = "None" =>
                  /\ Len(result.ret.sources) = Len(positions)
                  /\ \A i \in DOMAIN positions :
                        result.ret.sources[i].text =
                            IF Len(stored(i)) <= 500
                            THEN stored(i)
                            ELSE SubSeq(stored(i), 1, 500) \o "..."

\* C22 witness: an answer from a chunk of 501 characters and one of 500: both
\* go whole to generation, the first is shown as 503 characters, the second
\* as it is.
C22_Witness ==
    /\ result.op = "answer"
    /\ result.raised = "None"
    /\ result.generated = 1
    /\ Len(result.context_chunks) >= 2
    /\ Len(result.context_chunks[1]) = 501
    /\ Len(result.ret.sources[1].text) = 503
    /\ Len(result.context_chunks[2]) = 500
    /\ result.ret.sources[2].text = result.context_chunks[2]

----------------------------------------------------------------------------
(* Properties of the results handed out (SpecAlias).                       *)

\* C23: a query result is a copy: writing into a returned metadata map
\* leaves the store's ids, texts, embeddings and metadata as they were.
C23_ResultsAreCopies ==
    [][result'.op = "modify_result" => vector_store' = vector_store]_vars

----------------------------------------------------------------------------
(* Properties of add_documents with its arguments (SpecAppend).            *)

\* C24: a successful add_documents appends: each of the four lists keeps
\* what it held, position by position, and gains one item per (chunk,
\* embedding) pair in input order: the id "<document_id>_chunk_<chunk_index>",
\* the chunk's text, the embedding given with it, and a metadata map of the
\* document_id and the chunk's chunk_index.
C24_AppendOnly ==
    [][(result'.op = "add_documents" /\ result'.raised = "None") =>
        LET chunks == result'.chunks
            n      == Len(chunks)
            appended(field) ==
                SubSeq(vector_store'[field], Len(vector_store[field]) + 1,
                       Len(vector_store'[field]))
        IN  /\ \A field \in DOMAIN vector_store :
                  /\ Len(vector_store'[field]) = Len(vector_store[field]) + n
                  /\ SubSeq(vector_store'[field], 1, Len(vector_store[field]))
                        = vector_store[field]
            /\ \A k \in 1..n :
                  /\ appended("ids")[k] =
                        ChunkId(result'.document_id, chunks[k].chunk_index)
                  /\ appended("documents")[k] = chunks[k].text
                  /\ appended("embeddings")[k] = result'.embeddings[k]
                  /\ appended("metadatas")[k].document_id = result'.document_id
                  /\ appended("metadatas")[k].chunk_index = chunks[k].chunk_index
      ]_vars

\* C24 witness: two chunks were added behind a record of the other document.
C24_Witness ==
    /\ result.op = "add_documents"
    /\ result.raised = "None"
    /\ result.document_id = "d2"
    /\ result.chunks = <<ChunkDog, ChunkCat>>
    /\ result.embeddings = <<<<0, 1>>, <<1, 0>>>>
    /\ vector_store.ids = <<"d1_chunk_0", "d2_chunk_1", "d2_chunk_0">>
    /\ vector_store.documents = <<"cat", "dog", "cat">>
    /\ vector_store.embeddings = <<<<1, 0>>, <<0, 1>>, <<1, 0>>>>
    /\ Len(vector_store.metadatas) = 3

----------------------------------------------------------------------------
(* Properties of the calls to the provider (SpecTimeout).                  *)

C26_UnknownIdIsNotFound ==
    (/\ result.op = "get_document_info"
     /\ result.document_id \notin list_documents(vector_store))
        => result.raised = "NotFoundError"

\* C27: every chunk of chunk_pages carries the page_number of an input page
\* whose text holds the chunk's text, and of two chunks the earlier one comes
\* from the same page as the later one or from a page before it.
C27_PageAndOrderPreserved ==
    (result.op = "chunk_pages" /\ result.raised = "None") =>
        LET chunks == result.ret
            pages  == result.pages
            From(k, p) == /\ chunks[k].page_number = pages[p].page_number
                          /\ Search(pages[p].text, chunks[k].text)
        IN  /\ \A k \in DOMAIN chunks : \E p \in DOMAIN pages : From(k, p)
            /\ \A i, j \in DOMAIN chunks :
                  i < j => \E p, q \in DOMAIN pages :
                              p <= q /\ From(i, p) /\ From(j, q)

\* C27 witness: two pages of different texts; the first gives two chunks and
\* the second the chunk after them.
C27_Witness ==
    /\ result.op = "chunk_pages"
    /\ Len(result.pages) = 2
    /\ result.pages[1].text # result.pages[2].text
    /\ Len(result.ret) = 3
    /\ result.ret[1].page_number = 1
    /\ result.ret[2].page_number = 1
    /\ result.ret[3].page_number = 2
    /\ result.ret[3].text = result.pages[2].text
    /\ result.ret[3].text # result.ret[1].text

\* C28: an add_documents that raises, for whatever reason and at whichever
\* chunk, leaves the store as it was before the call.
C28_FailedAddLeavesStoreUnchanged ==
    [][(result'.op = "add_documents" /\ result'.raised # "None") =>
          vector_store' = vector_store]_vars

\* C29: after an ingest_pdf that returned, the store holds num_chunks records
\* of the returned document_id, with chunk_index 0, 1, ... in this order, and
\* list_documents() contains the id, whatever the number of chunks.
C29_IngestedDocumentIsStored ==
    (result.op = "ingest_pdf" /\ result.raised = "None") =>
        LET id      == result.ret.document_id
            records == SelectSeq(vector_store.metadatas,
                                 LAMBDA meta : Get(meta, "document_id", "") = id)
        IN  /\ Len(records) = result.ret.num_chunks
            /\ \A k \in DOMAIN records : records[k].chunk_index = k - 1
            /\ id \in list_documents(vector_store)

-----------------------------------------------------------------------------
(* Properties of delete_document on interleaved documents (SpecInterleave). *)

\* The items of a list at the positions of S, in the order of the list.
Restrict(list, S) ==
    LET kept == Ascending(S \cap DOMAIN list)
    IN  [i \in DOMAIN kept |-> list[kept[i]]]

\* C30: after delete_document the four lists are the lists of before the call
\* at one and the same set of positions, in their order of before: position by
\* position the id, text, embedding and metadata left are those of one
\* original position, and the survivors keep their relative order.
C30_SurvivorsAlignedInOrder ==
    result.op = "delete_document" =>
        \E S \in SUBSET DOMAIN result.before.ids :
            /\ vector_store.ids = Restrict(result.before.ids, S)
            /\ vector_store.documents = Restrict(result.before.documents, S)
            /\ vector_store.embeddings = Restrict(result.before.embeddings, S)
            /\ vector_store.metadatas = Restrict(result.before.metadatas, S)

\* C30 witness: a record of d1 between two different records of d2; d1 was
\* deleted and the two records of d2 are left, in their order.
C30_Witness ==
    /\ result.op = "delete_document"
    /\ result.document_id = "d1"
    /\ Len(result.before.ids) = 3
    /\ Len(result.before.metadatas) = 3
    /\ result.before.metadatas[1].document_id = "d2"
    /\ result.before.metadatas[2].document_id = "d1"
    /\ result.before.metadatas[3].document_id = "d2"
    /\ result.before.ids[1] # result.before.ids[3]
    /\ vector_store.ids = <<result.before.ids[1], result.before.ids[3]>>
    /\ Len(vector_store.metadatas) = 2

====
